---- MODULE Spec2Model ----
(***************************************************************************)
(* A model of fishtail's Mermaid flowchart parser (mermaid-parser.ts) and  *)
(* of the graph model it assembles (models.ts).  Text is modelled at the   *)
(* character level: a TLA+ string is the JavaScript string, every regular  *)
(* expression of the source is an operator that scans the string the way   *)
(* the expression does, and parse() is a state machine whose steps are the *)
(* header classification and one iteration of the line loop each.          *)
(***************************************************************************)
EXTENDS Naturals, Sequences, FiniteSets, TLC

\* ------------------------------------------------------------------------
\* JavaScript strings
\* ------------------------------------------------------------------------

\* s[i] of a 1-based string
Ch(s, i) == SubSeq(s, i, i)

\* s.slice(n): the string without its first n characters
slice(s, n) == SubSeq(s, n + 1, Len(s))

\* s.slice(0, n)
take(s, n) == SubSeq(s, 1, IF n > Len(s) THEN Len(s) ELSE n)

\* s.startsWith(p)
startsWith(s, p) == Len(p) <= Len(s) /\ SubSeq(s, 1, Len(p)) = p

\* the characters \s matches (those the inputs can hold)
WhiteSpace == {" ", "\t", "\r", "\n"}

\* the characters [ \t] matches
Blank == {" ", "\t"}

LOWER == "abcdefghijklmnopqrstuvwxyz"

UPPER == "ABCDEFGHIJKLMNOPQRSTUVWXYZ"

DIGITS == "0123456789"

LowerSet == {Ch(LOWER, i) : i \in 1..26}

UpperSet == {Ch(UPPER, i) : i \in 1..26}

\* the characters [A-Z] matches under the i flag
Letters == LowerSet \cup UpperSet

\* the characters \w matches
WordChars == Letters \cup {Ch(DIGITS, i) : i \in 1..10} \cup {"_"}

UpperOf == [c \in LowerSet |-> Ch(UPPER, CHOOSE i \in 1..26 : Ch(LOWER, i) = c)]

LowerOf == [c \in UpperSet |-> Ch(LOWER, CHOOSE i \in 1..26 : Ch(UPPER, i) = c)]

RECURSIVE toUpperCase(_)
toUpperCase(s) ==
  IF s = "" THEN ""
  ELSE (IF Head(s) \in LowerSet THEN UpperOf[Head(s)] ELSE Head(s)) \o toUpperCase(Tail(s))

RECURSIVE toLowerCase(_)
toLowerCase(s) ==
  IF s = "" THEN ""
  ELSE (IF Head(s) \in UpperSet THEN LowerOf[Head(s)] ELSE Head(s)) \o toLowerCase(Tail(s))

\* the length of the longest prefix of s made of characters of S: what S* consumes
RECURSIVE SpanFrom(_, _, _)
SpanFrom(s, S, i) ==
  IF i > Len(s) \/ Ch(s, i) \notin S THEN i - 1 ELSE SpanFrom(s, S, i + 1)

Span(s, S) == SpanFrom(s, S, 1)

\* the length of the longest prefix of s holding no character of S: what [^c]* consumes
RECURSIVE SpanUntilFrom(_, _, _)
SpanUntilFrom(s, S, i) ==
  IF i > Len(s) \/ Ch(s, i) \in S THEN i - 1 ELSE SpanUntilFrom(s, S, i + 1)

SpanUntil(s, S) == SpanUntilFrom(s, S, 1)

\* the length of the longest suffix of s made of characters of S
RECURSIVE TrailFrom(_, _, _)
TrailFrom(s, S, i) ==
  IF i < 1 \/ Ch(s, i) \notin S THEN Len(s) - i ELSE TrailFrom(s, S, i - 1)

\* s.trim()
trim(s) ==
  LET a == Span(s, WhiteSpace)
  IN  IF a = Len(s) THEN "" ELSE SubSeq(s, a + 1, Len(s) - TrailFrom(s, WhiteSpace, Len(s)))

\* s.split("\n")
RECURSIVE split(_)
split(s) ==
  LET k == SpanUntil(s, {"\n"})
  IN  IF k = Len(s) THEN <<s>> ELSE <<take(s, k)>> \o split(slice(s, k + 1))

\* s.includes(p)
includes(s, p) == \E i \in 0..(Len(s) - Len(p)) : SubSeq(s, i + 1, i + Len(p)) = p

\* the value of a failed match, of a null result
null == [null |-> TRUE]

\* ------------------------------------------------------------------------
\* The regular expressions of the line dispatcher
\* ------------------------------------------------------------------------

\* COMMENT = /^\s*%%/
COMMENT(line) == startsWith(slice(line, Span(line, WhiteSpace)), "%%")

\* DIRECTION = /^\s*direction\s+/
DIRECTION(line) ==
  LET r == slice(line, Span(line, WhiteSpace))
  IN  startsWith(r, "direction") /\ Span(slice(r, 9), WhiteSpace) >= 1

\* SUBGRAPH_END = /^\s*end\s*$/
SUBGRAPH_END(line) == trim(line) = "end"

\* SUBGRAPH_START = /^\s*subgraph\s+(?:"([^"]*)"|([\w-]+))/ : the match's
\* sgMatch[1] ?? sgMatch[2] as name, or null
SUBGRAPH_START(line) ==
  LET r  == slice(line, Span(line, WhiteSpace))
      r2 == slice(r, 8)
      r3 == slice(r2, Span(r2, WhiteSpace))
      q  == SpanUntil(slice(r3, 1), {"\""})
      k  == Span(r3, WordChars \cup {"-"})
  IN  IF ~startsWith(r, "subgraph") \/ Span(r2, WhiteSpace) = 0 THEN null
      ELSE IF startsWith(r3, "\"")
           THEN IF q + 1 < Len(r3) THEN [name |-> SubSeq(r3, 2, q + 1)] ELSE null
           ELSE IF k > 0 THEN [name |-> take(r3, k)] ELSE null

MERMAID_KEYWORDS ==
  {"end", "subgraph", "graph", "flowchart", "style", "classDef", "class",
   "direction", "click", "linkStyle"}

\* ------------------------------------------------------------------------
\* Node tokens
\* ------------------------------------------------------------------------

\* SHAPE_PATTERNS, in the source's order.  Every pattern is
\* ^ open ([^stop]*) close, and close begins with the stop character, so the
\* capture is the longest run free of it and the match needs close right there.
SHAPE_PATTERNS ==
  << [open |-> "[(\"", stop |-> "\"", close |-> "\")]"],
     [open |-> "[(",   stop |-> ")",  close |-> ")]"],
     [open |-> "((\"", stop |-> "\"", close |-> "\"))"],
     [open |-> "((",   stop |-> ")",  close |-> "))"],
     [open |-> "[[\"", stop |-> "\"", close |-> "\"]]"],
     [open |-> "[[",   stop |-> "]",  close |-> "]]"],
     [open |-> "{{\"", stop |-> "\"", close |-> "\"}}"],
     [open |-> "{{",   stop |-> "}",  close |-> "}}"],
     [open |-> "[/",   stop |-> "/",  close |-> "/]"],
     [open |-> "[\\",  stop |-> "\\", close |-> "\\]"],
     [open |-> "[\"",  stop |-> "\"", close |-> "\"]"],
     [open |-> "[",    stop |-> "]",  close |-> "]"],
     [open |-> "(\"",  stop |-> "\"", close |-> "\")"],
     [open |-> "(",    stop |-> ")",  close |-> ")"],
     [open |-> "{\"",  stop |-> "\"", close |-> "\"}"],
     [open |-> "{",    stop |-> "}",  close |-> "}"],
     [open |-> ">\"",  stop |-> "\"", close |-> "\"]"],
     [open |-> ">",    stop |-> "]",  close |-> "]"] >>

\* regex.exec(afterId) of one shape pattern: match[1] and match[0].length, or null
shapeExec(p, s) ==
  LET r == slice(s, Len(p.open))
      n == SpanUntil(r, {p.stop})
  IN  IF startsWith(s, p.open) /\ startsWith(slice(r, n), p.close)
      THEN [captured |-> take(r, n), length |-> Len(p.open) + n + Len(p.close)]
      ELSE null

\* rawLabel.replace(/^"|"$/g, ""): a leading quote goes, and a trailing quote goes
stripQuotes(s) ==
  LET a == IF startsWith(s, "\"") THEN 1 ELSE 0
      b == IF Len(s) > a /\ Ch(s, Len(s)) = "\"" THEN 1 ELSE 0
  IN  SubSeq(s, a + 1, Len(s) - b)

\* the loop of parseNodeToken over SHAPE_PATTERNS from pattern i on
RECURSIVE firstShape(_, _)
firstShape(afterId, i) ==
  IF i > Len(SHAPE_PATTERNS) THEN null
  ELSE LET m == shapeExec(SHAPE_PATTERNS[i], afterId)
       IN  IF m # null THEN [label |-> stripQuotes(m.captured), length |-> m.length]
           ELSE firstShape(afterId, i + 1)

\* parseNodeToken(text): {id, label?, consumed} or null
parseNodeToken(text) ==
  LET n == Span(text, WordChars)
      m == firstShape(slice(text, n), 1)
  IN  IF n = 0 THEN null
      ELSE IF m # null
           THEN [id |-> take(text, n), label |-> m.label, consumed |-> n + m.length]
           ELSE [id |-> take(text, n), consumed |-> n]

\* ------------------------------------------------------------------------
\* Arrows
\* ------------------------------------------------------------------------

ARROWS == << "-.->", "-..->", "==>", "-->", "---", "--", "-..-", "-.-" >>

\* /^[ \t]*\|([^|]*)\|/.exec(afterArrow): labelMatch[1] and labelMatch[0].length, or null
labelExec(afterArrow) ==
  LET b == Span(afterArrow, Blank)
      r == slice(afterArrow, b)
      n == SpanUntil(slice(r, 1), {"|"})
  IN  IF startsWith(r, "|") /\ n + 1 < Len(r)
      THEN [text |-> SubSeq(r, 2, n + 1), length |-> b + n + 2]
      ELSE null

\* the label as written between the bars, trim() forgotten
arrowLabelRaw(labelMatch) == labelMatch.text

\* label = labelMatch[1].trim()
arrowLabel(labelMatch) == trim(labelMatch.text)

\* the loop when whatever follows the arrow is accepted
RECURSIVE firstArrowAnyRest(_, _, _)
firstArrowAnyRest(trimmed, leadingSpaces, i) ==
  IF i > Len(ARROWS) THEN null
  ELSE LET arrow      == ARROWS[i]
           labelMatch == labelExec(slice(trimmed, Len(arrow)))
           pos        == Len(arrow) + (IF labelMatch # null THEN labelMatch.length ELSE 0)
       IN  IF ~startsWith(trimmed, arrow) THEN firstArrowAnyRest(trimmed, leadingSpaces, i + 1)
           ELSE IF labelMatch # null
                THEN [consumed |-> leadingSpaces + pos, label |-> arrowLabel(labelMatch)]
                ELSE [consumed |-> leadingSpaces + pos]

\* the loop of parseArrow over ARROWS from arrow i on
RECURSIVE firstArrow(_, _, _)
firstArrow(trimmed, leadingSpaces, i) ==
  IF i > Len(ARROWS) THEN null
  ELSE LET arrow      == ARROWS[i]
           labelMatch == labelExec(slice(trimmed, Len(arrow)))
           pos        == Len(arrow) + (IF labelMatch # null THEN labelMatch.length ELSE 0)
           rest       == slice(trimmed, pos)
       IN  IF ~startsWith(trimmed, arrow) THEN firstArrow(trimmed, leadingSpaces, i + 1)
           ELSE IF Len(rest) > 0 /\ Ch(rest, 1) \notin Blank
                THEN firstArrow(trimmed, leadingSpaces, i + 1)
                ELSE IF labelMatch # null
                     THEN [consumed |-> leadingSpaces + pos, label |-> arrowLabel(labelMatch)]
                     ELSE [consumed |-> leadingSpaces + pos]

\* parseArrow(text): {consumed, label?} or null
parseArrow(text) ==
  firstArrow(slice(text, Span(text, Blank)), Span(text, Blank), 1)

\* ------------------------------------------------------------------------
\* Edge chains and node declarations
\* ------------------------------------------------------------------------

\* the assignment made only when the identifier has no label yet
setLabelFirstWins(labels, id, label) ==
  IF id \in DOMAIN labels THEN labels
  ELSE [x \in (DOMAIN labels) \cup {id} |-> IF x = id THEN label ELSE labels[x]]

\* labels[id] = label
setLabel(labels, id, label) ==
  [x \in (DOMAIN labels) \cup {id} |-> IF x = id THEN label ELSE labels[x]]

\* if (node.label !== undefined) labels[node.id] = node.label
noteLabel(labels, node) ==
  IF "label" \in DOMAIN node THEN setLabel(labels, node.id, node.label) ELSE labels

\* const edge = {source, target}; if (arrow.label) edge.label = arrow.label
makeEdge(sourceId, targetId, arrow) ==
  IF "label" \in DOMAIN arrow /\ arrow.label # ""
  THEN [source |-> sourceId, target |-> targetId, label |-> arrow.label]
  ELSE [source |-> sourceId, target |-> targetId]

\* the while loop with sourceId = targetNode.id forgotten: every edge leaves the first node
RECURSIVE chainLoopFixedSource(_, _, _, _, _)
chainLoopFixedSource(trimmed, pos, sourceId, edges, labels) ==
  IF pos >= Len(trimmed) THEN [edges |-> edges, labels |-> labels]
  ELSE LET arrow      == parseArrow(slice(trimmed, pos))
           pos1       == pos + arrow.consumed
           pos2       == pos1 + Span(slice(trimmed, pos1), Blank)
           targetNode == parseNodeToken(slice(trimmed, pos2))
       IN  IF arrow = null THEN [edges |-> edges, labels |-> labels]
           ELSE IF targetNode = null THEN [edges |-> edges, labels |-> labels]
           ELSE chainLoopFixedSource(trimmed, pos2 + targetNode.consumed, sourceId,
                          Append(edges, makeEdge(sourceId, targetNode.id, arrow)),
                          noteLabel(labels, targetNode))

\* the loop when a chain that stops early is rejected as a whole
RECURSIVE chainLoopAllOrNothing(_, _, _, _, _)
chainLoopAllOrNothing(trimmed, pos, sourceId, edges, labels) ==
  IF pos >= Len(trimmed) THEN [edges |-> edges, labels |-> labels]
  ELSE LET arrow      == parseArrow(slice(trimmed, pos))
           pos1       == pos + arrow.consumed
           pos2       == pos1 + Span(slice(trimmed, pos1), Blank)
           targetNode == parseNodeToken(slice(trimmed, pos2))
       IN  IF arrow = null THEN [edges |-> <<>>, labels |-> labels]
           ELSE IF targetNode = null THEN [edges |-> <<>>, labels |-> labels]
           ELSE chainLoopAllOrNothing(trimmed, pos2 + targetNode.consumed, targetNode.id,
                          Append(edges, makeEdge(sourceId, targetNode.id, arrow)),
                          noteLabel(labels, targetNode))

\* the while loop of parseEdgeLine, from position pos (0-based) on
RECURSIVE chainLoop(_, _, _, _, _)
chainLoop(trimmed, pos, sourceId, edges, labels) ==
  IF pos >= Len(trimmed) THEN [edges |-> edges, labels |-> labels]
  ELSE LET arrow      == parseArrow(slice(trimmed, pos))
           pos1       == pos + arrow.consumed
           pos2       == pos1 + Span(slice(trimmed, pos1), Blank)
           targetNode == parseNodeToken(slice(trimmed, pos2))
       IN  IF arrow = null THEN [edges |-> edges, labels |-> labels]
           ELSE IF targetNode = null THEN [edges |-> edges, labels |-> labels]
           ELSE chainLoop(trimmed, pos2 + targetNode.consumed, targetNode.id,
                          Append(edges, makeEdge(sourceId, targetNode.id, arrow)),
                          noteLabel(labels, targetNode))

\* parseEdgeLine(line, labels): the edges of the line, and labels as the call leaves it
parseEdgeLine(line, labels) ==
  LET trimmed   == trim(line)
      firstNode == parseNodeToken(trimmed)
  IN  IF firstNode = null THEN [edges |-> <<>>, labels |-> labels]
      ELSE chainLoop(trimmed, firstNode.consumed, firstNode.id, <<>>,
                     noteLabel(labels, firstNode))

\* the declaration when reserved words are taken as identifiers
parseNodeDeclarationAnyId(line, labels) ==
  LET trimmed == trim(line)
      node    == parseNodeToken(trimmed)
  IN  IF node = null THEN [labels |-> labels]
      ELSE IF node.consumed # Len(trimmed) THEN [labels |-> labels]
      ELSE [id |-> node.id, labels |-> noteLabel(labels, node)]

\* parseNodeDeclaration(line, labels): the node id (no id field for null), and labels
\* as the call leaves it
parseNodeDeclaration(line, labels) ==
  LET trimmed == trim(line)
      node    == parseNodeToken(trimmed)
  IN  IF node = null THEN [labels |-> labels]
      ELSE IF node.consumed # Len(trimmed) THEN [labels |-> labels]
      ELSE IF node.id \in MERMAID_KEYWORDS THEN [labels |-> labels]
      ELSE [id |-> node.id, labels |-> noteLabel(labels, node)]

\* ------------------------------------------------------------------------
\* Header classification
\* ------------------------------------------------------------------------

\* UNSUPPORTED_TYPES, in the Set's insertion order (the order the for loop visits)
UNSUPPORTED_TYPES ==
  << "sequenceDiagram", "gantt", "classDiagram", "stateDiagram", "stateDiagram-v2",
     "pie", "erDiagram", "journey", "gitGraph", "mindmap", "timeline", "quadrantChart" >>

\* lines.find((line) => line.trim() && !COMMENT.test(line))?.trim() ?? ""
RECURSIVE findHeader(_, _)
findHeader(ls, i) ==
  IF i > Len(ls) THEN ""
  ELSE IF trim(ls[i]) # "" /\ ~COMMENT(ls[i]) THEN trim(ls[i])
  ELSE findHeader(ls, i + 1)

\* unsupported.toLowerCase() of every entry
unsupportedLower == [i \in 1..Len(UNSUPPORTED_TYPES) |-> toLowerCase(UNSUPPORTED_TYPES[i])]

\* the for loop over UNSUPPORTED_TYPES from entry i on, given headerLine.toLowerCase():
\* the type that throws, or null
RECURSIVE firstUnsupported(_, _)
firstUnsupported(lowered, i) ==
  IF i > Len(UNSUPPORTED_TYPES) THEN null
  ELSE IF startsWith(lowered, unsupportedLower[i]) THEN [type |-> UNSUPPORTED_TYPES[i]]
  ELSE firstUnsupported(lowered, i + 1)

\* the unsupported type the header line throws for, or null
unsupportedType(h) == firstUnsupported(toLowerCase(h), 1)

\* SUPPORTED without its i flag: lowercase keyword, uppercase direction
SUPPORTED_caseSensitive(headerLine) ==
  LET kw  == IF take(headerLine, 5) = "graph" THEN 5
             ELSE IF take(headerLine, 9) = "flowchart" THEN 9 ELSE 0
      r   == slice(headerLine, kw)
      w   == Span(r, WhiteSpace)
      d   == Span(slice(r, w), UpperSet)
  IN  IF kw = 0 \/ w = 0 \/ d = 0 THEN null
      ELSE [dir |-> take(slice(r, w), d)]

\* SUPPORTED = /^(?:graph|flowchart)\s+([A-Z]+)/i : match[1], or null
SUPPORTED(headerLine) ==
  LET kw  == IF toLowerCase(take(headerLine, 5)) = "graph" THEN 5
             ELSE IF toLowerCase(take(headerLine, 9)) = "flowchart" THEN 9 ELSE 0
      r   == slice(headerLine, kw)
      w   == Span(r, WhiteSpace)
      d   == Span(slice(r, w), Letters)
  IN  IF kw = 0 \/ w = 0 \/ d = 0 THEN null
      ELSE [dir |-> take(slice(r, w), d)]

\* the direction as written, toUpperCase() forgotten
directionRaw(match) == match.dir

\* const direction = match[1].toUpperCase()
directionOf(match) == toUpperCase(match.dir)

unsupportedMessage(type) ==
  "Diagram type '" \o type
    \o "' is not supported yet. Only graph/flowchart diagrams are supported."

\* the message without the header line
unrecognisedMessageNoHeader(headerLine) ==
  "Unsupported diagram type. Only graph/flowchart diagrams are supported."

unrecognisedMessage(headerLine) ==
  "Unsupported diagram type. Only graph/flowchart diagrams are supported. Got: '"
    \o headerLine \o "'"

\* ------------------------------------------------------------------------
\* The inputs
\* ------------------------------------------------------------------------

\* the longest body, in lines, of the texts built from BodyPool
MaxBodyLines == 3

\* the longest chain, in node tokens, of the texts built from ChainToks
MaxChain == 3

\* lines.join("\n")
RECURSIVE join(_)
join(ls) ==
  IF Len(ls) = 0 THEN ""
  ELSE IF Len(ls) = 1 THEN ls[1]
  ELSE ls[1] \o "\n" \o join(Tail(ls))

Preambles == {"", "%% note\n", "\n  \n", "  %% a\n\n%%b\n "}

UnsupportedHeaders ==
  {UNSUPPORTED_TYPES[i] : i \in 1..Len(UNSUPPORTED_TYPES)}
    \cup {"SEQUENCEDIAGRAM", "Gantt", "pie title Pets", "statediagram-V2", "gitgraph:",
          "mindmaps", "graphTimeline", "timeline LR"}

UnrecognisedHeaders ==
  {"", "weirdType", "graph", "flowchart", "graphLR", "graph 12", "flow chart LR",
   "subgraph LR", "digraph LR", "graph\t", "graph -->", "a --> b", "state", "graph_ TD"}

AcceptedHeaders ==
  {"graph LR", "flowchart TD", "graph lr", "Flowchart \t bT", "GRAPH RL;", "graph td2",
   "flowchart LR %% c", "graph\tTB", "graph  x --> y", "flowchart\rLr"}

HeaderTexts ==
  {pre \o h \o tail :
     pre  \in Preambles,
     h    \in UnsupportedHeaders \cup UnrecognisedHeaders \cup AcceptedHeaders,
     tail \in {"", "\n  a --> b", " \n\nsubgraph s\n  n1\nend\n"}}
    \cup {"%% only", "%% a\n  %% b\n", "   ", "\n", "\n%%\n"}

BodyPool ==
  {"  subgraph g", "  end", "    A", "  A --> B", "  A[x] --> B[x] --> A[w]",
   "    A[y]", "  A[z"}

BodyTexts ==
  {join(<<"graph LR">> \o b) : b \in UNION {[1..n -> BodyPool] : n \in 0..MaxBodyLines}}

\* node tokens of the chain texts: the token's text and its identifier
ChainToks ==
  {[text |-> "A", id |-> "A"], [text |-> "B[b]", id |-> "B"],
   [text |-> "direction", id |-> "direction"]}

\* arrows of the chain texts, each followed by whitespace
ChainSeps == {"-.- ", " ==>|l|\t"}

RECURSIVE Chains(_)
Chains(n) ==
  IF n = 1 THEN {[text |-> t.text, ids |-> <<t.id>>] : t \in ChainToks}
  ELSE {[text |-> c.text \o s \o t.text, ids |-> Append(c.ids, t.id)] :
          c \in Chains(n - 1), s \in ChainSeps, t \in ChainToks}

ChainTexts ==
  {"flowchart TB\n" \o pre \o c.text :
     pre \in {"  ", "subgraph g\n"}, c \in UNION {Chains(n) : n \in 1..MaxChain}}

\* one arrow between two tokens: every arrow lexeme, with and without an edge label,
\* followed by a space, by a tab, by the target itself, or by nothing
ArrowTails == {"", "|Yes|", " |  a b\t|", "||", "| |", "|x"}

ArrowTexts ==
  {"graph TD\n" \o src \o pre \o ARROWS[i] \o tail \o post :
     src \in {"A", "subgraph"}, pre \in {"", " "}, i \in 1..Len(ARROWS),
     tail \in ArrowTails, post \in {" B", "\t B", "B", ""}}

\* the text a shape can hold
ShapeInner == {"", "t", "a b", "\"q\"", "x\"", "\"x", "\"", "say \"hi\"", "(r)", "[", "/s/"}

ShapeTexts ==
  {"graph LR\nsubgraph s\n" \o "N" \o SHAPE_PATTERNS[i].open \o inner
     \o SHAPE_PATTERNS[i].close \o tail :
     i \in 1..Len(SHAPE_PATTERNS), inner \in ShapeInner, tail \in {"", " --> M"}}
    \cup {"graph LR\nsubgraph s\nN" \o SHAPE_PATTERNS[i].open \o "t" :
            i \in 1..Len(SHAPE_PATTERNS)}

\* chains that stop before the end of the line, and one that does not
PartialLines ==
  {"A --> B -->", "A --> B ?? C", "A --> B[b] -.-> C ?? D[d] --> E",
   "A -->|go| B --> [x]", "A --> B C --> D", "A ?? B --> C", "A --> B --> C"}

PartialTexts == {"graph LR\n" \o l : l \in PartialLines}

\* lines without an edge: single node tokens, reserved words, and lines with more
\* than a token
StandaloneLines ==
  {"A", "A[Client]", "  N((r))  ", "9", "a_b", "Class", "style", "classDef", "class",
   "click", "linkStyle", "graph", "flowchart", "subgraph", "direction", "end[X]",
   "style[s]", "A[x] junk", "A B", "A[z", "A --", "-->", "[x]", "end"}

\* each of them at top level, inside a subgraph, and after the end of an inner subgraph
StandaloneTexts ==
  {"graph LR\n" \o ctx \o l :
     ctx \in {"", "subgraph s\n", "subgraph o\nsubgraph i\nend\n"}, l \in StandaloneLines}

Texts ==
  HeaderTexts \cup BodyTexts \cup ChainTexts \cup ArrowTexts \cup ShapeTexts
    \cup PartialTexts \cup StandaloneTexts

\* ------------------------------------------------------------------------
\* parse(text)
\* ------------------------------------------------------------------------

VARIABLES
  text,             \* the argument of parse
  pc,               \* "start", "loop", "returned" or "thrown"
  lines,            \* text.trim().split("\n")
  next,             \* the index in lines of the line the for loop visits next
  direction,        \* match[1].toUpperCase()
  subgraphs,        \* SubGraph[]: records {name, nodes}
  edges,            \* Edge[]: records {source, target, label?}
  labels,           \* Record<string, string>
  currentSubgraph,  \* 0 for null, else the index in subgraphs of the current SubGraph
  lineEdges,        \* what parseEdgeLine returned in the last iteration
  thrown            \* null, or the UnsupportedDiagramError thrown

\* allNodeNames(graph) and nodeSubgraph(graph, name) of models.ts
VARIABLES
  mermaidGraph,     \* the graph argument: a record {subgraphs, edges}
  call,             \* "none", or the function that has been called
  nodeNames,        \* what allNodeNames returned
  nodeName,         \* the name argument of nodeSubgraph
  found             \* what nodeSubgraph returned: undefined, or {name}

undefined == [undefined |-> TRUE]

parseVars ==
  << text, pc, lines, next, direction, subgraphs, edges, labels, currentSubgraph,
     lineEdges, thrown >>

modelsVars == << mermaidGraph, call, nodeNames, nodeName, found >>

\* generateHtml(graph) and findSimpleCycles(graph.edges)
VARIABLES
  edgeElements,     \* the edges of the data generateHtml emits: {data: {id, source, target}, classes?}
  cycles,           \* what findSimpleCycles returned
  nodeElements,     \* the nodes of the data: {data: {id, label, subgraph, bgColor, ...}}
  legend            \* the legend of the data: {name, color}

htmlVars == << edgeElements, cycles, nodeElements, legend >>

\* the viewer page: the cytoscape elements, the sidebar and the search box
VARIABLES
  nodeClasses,      \* for each node id, the classes of its cytoscape element
  edgeClasses,      \* for each edge of the data, by position, the classes of its element
  selectedNode,     \* null, or the selected node: {id}
  sidebarActive,    \* the ids of the .node-item elements with class active
  cycleActive,      \* the positions of the .cycle-item elements with class active
  hidden,           \* the ids of the .node-item elements with class hidden
  searchValue       \* the value of the search input

viewerVars ==
  << nodeClasses, edgeClasses, selectedNode, sidebarActive, cycleActive, hidden,
     searchValue >>

\* the dev server and the pages it has served
VARIABLES
  file,             \* the watched file: {exists, text}
  fileVersion,      \* how many times the watched file has changed
  debounceTimer,    \* FALSE for null, TRUE while debounceTimer holds a timeout handle
  sseClients,       \* the pages whose /events response is in sseClients
  page,             \* for each browser page: {state, shown, response}
  inbox,            \* for each page, whether a reload is on its way to it
  timeouts,         \* how many timeouts of debouncedBroadcast the event loop holds
  changed,          \* whether a watcher has called back since the last broadcast
  watchers,         \* the watchers that are not closed
  server,           \* "listening", "closing" after server.close(), or "closed"
  exitCode          \* null, or the code the process has exited with

serverVars ==
  << file, fileVersion, debounceTimer, sseClients, page, inbox, timeouts, changed,
     watchers, server, exitCode >>

\* the variables parse does not touch
outsideParse == << modelsVars, htmlVars, viewerVars, serverVars >>

\* the variables allNodeNames and nodeSubgraph do not touch
outsideModels == << parseVars, htmlVars, viewerVars, serverVars >>

\* the variables generateHtml and findSimpleCycles do not touch, the graph apart
outsideHtml == << parseVars, viewerVars, serverVars >>

vars == << parseVars, outsideParse >>

\* no call of parse is under way
ParseIdle ==
  /\ text = "" /\ pc = "idle" /\ lines = <<>> /\ next = 0 /\ direction = ""
  /\ subgraphs = <<>> /\ edges = <<>> /\ labels = [x \in {} |-> ""]
  /\ currentSubgraph = 0 /\ lineEdges = <<>> /\ thrown = null

\* no viewer page is open
ViewerIdle ==
  /\ nodeClasses = <<>> /\ edgeClasses = <<>> /\ selectedNode = null
  /\ sidebarActive = {} /\ cycleActive = {} /\ hidden = {} /\ searchValue = ""

\* no server is started
ServerIdle ==
  /\ file = [exists |-> FALSE, text |-> ""] /\ fileVersion = 0 /\ debounceTimer = FALSE
  /\ sseClients = {} /\ page = <<>> /\ inbox = <<>>
  /\ timeouts = 0 /\ changed = FALSE /\ watchers = {} /\ server = "none"
  /\ exitCode = null

\* nothing is generated
HtmlIdle == edgeElements = <<>> /\ cycles = <<>> /\ nodeElements = <<>> /\ legend = <<>>

\* no function of models.ts is called
ModelsIdle ==
  /\ mermaidGraph = null /\ call = "idle" /\ nodeNames = <<>> /\ nodeName = ""
  /\ found = undefined

noLabels == [x \in {} |-> ""]

Init ==
  /\ text \in Texts
  /\ pc = "start"
  /\ lines = <<>>
  /\ next = 0
  /\ direction = ""
  /\ subgraphs = <<>>
  /\ edges = <<>>
  /\ labels = noLabels
  /\ currentSubgraph = 0
  /\ lineEdges = <<>>
  /\ thrown = null
  /\ ModelsIdle
  /\ HtmlIdle
  /\ ViewerIdle
  /\ ServerIdle

headerLine == findHeader(split(trim(text)), 1)

\* lines 205-211: the header begins with an unsupported type
ThrowUnsupported ==
  /\ pc = "start"
  /\ unsupportedType(headerLine) # null
  /\ thrown' = [name |-> "UnsupportedDiagramError",
                message |-> unsupportedMessage(unsupportedType(headerLine).type)]
  /\ pc' = "thrown"
  /\ lines' = split(trim(text))
  /\ UNCHANGED << text, next, direction, subgraphs, edges, labels, currentSubgraph, lineEdges >>
  /\ UNCHANGED outsideParse

\* lines 213-218: the header is not graph|flowchart DIR
ThrowUnrecognised ==
  /\ pc = "start"
  /\ unsupportedType(headerLine) = null
  /\ SUPPORTED(headerLine) = null
  /\ thrown' = [name |-> "UnsupportedDiagramError",
                message |-> unrecognisedMessage(headerLine)]
  /\ pc' = "thrown"
  /\ lines' = split(trim(text))
  /\ UNCHANGED << text, next, direction, subgraphs, edges, labels, currentSubgraph, lineEdges >>
  /\ UNCHANGED outsideParse

\* lines 220-224: the header is accepted; the loop starts at lines.slice(1)
AcceptHeader ==
  /\ pc = "start"
  /\ unsupportedType(headerLine) = null
  /\ SUPPORTED(headerLine) # null
  /\ direction' = directionOf(SUPPORTED(headerLine))
  /\ lines' = split(trim(text))
  /\ next' = 2
  /\ pc' = "loop"
  /\ UNCHANGED << text, subgraphs, edges, labels, currentSubgraph, lineEdges, thrown >>
  /\ UNCHANGED outsideParse

line == lines[next]

InLoop == pc = "loop" /\ next <= Len(lines)

\* lines 227-228: a comment or a direction hint
SkipLine ==
  /\ InLoop
  /\ COMMENT(line) \/ DIRECTION(line)
  /\ next' = next + 1
  /\ lineEdges' = <<>>
  /\ UNCHANGED << text, pc, lines, direction, subgraphs, edges, labels, currentSubgraph, thrown >>
  /\ UNCHANGED outsideParse

\* lines 230-236: subgraph <name>
OpenSubgraph ==
  /\ InLoop
  /\ ~COMMENT(line) /\ ~DIRECTION(line)
  /\ SUBGRAPH_START(line) # null
  /\ subgraphs' = Append(subgraphs, [name |-> SUBGRAPH_START(line).name, nodes |-> <<>>])
  /\ currentSubgraph' = Len(subgraphs) + 1
  /\ next' = next + 1
  /\ lineEdges' = <<>>
  /\ UNCHANGED << text, pc, lines, direction, edges, labels, thrown >>
  /\ UNCHANGED outsideParse

\* an end that returns to the enclosing subgraph
CloseSubgraphNested ==
  /\ InLoop
  /\ ~COMMENT(line) /\ ~DIRECTION(line)
  /\ SUBGRAPH_START(line) = null
  /\ SUBGRAPH_END(line)
  /\ currentSubgraph' = IF currentSubgraph > 0 THEN currentSubgraph - 1 ELSE 0
  /\ next' = next + 1
  /\ lineEdges' = <<>>
  /\ UNCHANGED << text, pc, lines, direction, subgraphs, edges, labels, thrown >>
  /\ UNCHANGED outsideParse

\* lines 238-241: end
CloseSubgraph ==
  /\ InLoop
  /\ ~COMMENT(line) /\ ~DIRECTION(line)
  /\ SUBGRAPH_START(line) = null
  /\ SUBGRAPH_END(line)
  /\ currentSubgraph' = 0
  /\ next' = next + 1
  /\ lineEdges' = <<>>
  /\ UNCHANGED << text, pc, lines, direction, subgraphs, edges, labels, thrown >>
  /\ UNCHANGED outsideParse

\* the line reaches the edge-chain attempt of line 244
ReachesEdges(l) == ~COMMENT(l) /\ ~DIRECTION(l) /\ SUBGRAPH_START(l) = null /\ ~SUBGRAPH_END(l)

\* if (!nodes.includes(id)) nodes.push(id)
pushNew(nodes, id) ==
  IF \E j \in 1..Len(nodes) : nodes[j] = id THEN nodes ELSE Append(nodes, id)

\* lines 249-256: the endpoints of the line's edges join the member list
RECURSIVE addEndpoints(_, _, _)
addEndpoints(nodes, es, j) ==
  IF j > Len(es) THEN nodes
  ELSE addEndpoints(pushNew(pushNew(nodes, es[j].source), es[j].target), es, j + 1)

\* the push that skips an edge already in the list
RECURSIVE pushAllUnique(_, _)
pushAllUnique(es, more) ==
  IF Len(more) = 0 THEN es
  ELSE pushAllUnique(IF \E j \in 1..Len(es) : es[j] = Head(more) THEN es
                     ELSE Append(es, Head(more)),
                     Tail(more))

\* edges.push(...lineEdges)
pushAll(es, more) == es \o more

\* lines 244-259: the line yields edges
EdgeLine ==
  /\ InLoop
  /\ ReachesEdges(line)
  /\ LET r == parseEdgeLine(line, labels)
     IN  /\ Len(r.edges) > 0
         /\ lineEdges' = r.edges
         /\ labels' = r.labels
         /\ edges' = pushAll(edges, r.edges)
         /\ subgraphs' =
              IF currentSubgraph # 0
              THEN [subgraphs EXCEPT ![currentSubgraph].nodes = addEndpoints(@, r.edges, 1)]
              ELSE subgraphs
  /\ next' = next + 1
  /\ UNCHANGED << text, pc, lines, direction, currentSubgraph, thrown >>
  /\ UNCHANGED outsideParse

\* nodes.push(nodeId)
push(nodes, id) == Append(nodes, id)

\* lines 244-245, 261-267: the line yields no edge; inside a subgraph it may declare a node
NodeLine ==
  /\ InLoop
  /\ ReachesEdges(line)
  /\ LET r == parseEdgeLine(line, labels)
         d == parseNodeDeclaration(line, r.labels)
     IN  /\ Len(r.edges) = 0
         /\ lineEdges' = r.edges
         /\ IF currentSubgraph # 0
            THEN /\ labels' = d.labels
                 /\ subgraphs' =
                      IF "id" \in DOMAIN d
                      THEN [subgraphs EXCEPT ![currentSubgraph].nodes = push(@, d.id)]
                      ELSE subgraphs
            ELSE /\ labels' = r.labels
                 /\ subgraphs' = subgraphs
  /\ next' = next + 1
  /\ UNCHANGED << text, pc, lines, direction, edges, currentSubgraph, thrown >>
  /\ UNCHANGED outsideParse

\* line 270: return {direction, subgraphs, edges, labels}
Return ==
  /\ pc = "loop"
  /\ next > Len(lines)
  /\ pc' = "returned"
  /\ UNCHANGED << text, lines, next, direction, subgraphs, edges, labels, currentSubgraph,
                  lineEdges, thrown >>
  /\ UNCHANGED outsideParse

Next ==
  \/ ThrowUnsupported
  \/ ThrowUnrecognised
  \/ AcceptHeader
  \/ SkipLine
  \/ OpenSubgraph
  \/ CloseSubgraph
  \/ EdgeLine
  \/ NodeLine
  \/ Return

Spec == Init /\ [][Next]_vars

\* ------------------------------------------------------------------------
\* What the claims speak of, read off the text alone
\* ------------------------------------------------------------------------

\* a and b are the same character up to letter case
SameNoCase(a, b) ==
  \/ a = b
  \/ a \in LowerSet /\ UpperOf[a] = b
  \/ b \in LowerSet /\ UpperOf[b] = a

\* s begins, case-insensitively, with p
StartsNoCase(s, p) ==
  Len(p) <= Len(s) /\ \A j \in 1..Len(p) : SameNoCase(Ch(s, j), Ch(p, j))

IsBlankLine(l) == \A j \in 1..Len(l) : Ch(l, j) \in WhiteSpace

IsCommentLine(l) ==
  \E j \in 1..Len(l) :
    /\ SubSeq(l, j, IF j < Len(l) THEN j + 1 ELSE j) = "%%"
    /\ \A k \in 1..(j - 1) : Ch(l, k) \in WhiteSpace

\* the first significant line of t: its first non-blank, non-%% line, trimmed; "" if none
FirstSignificant(t) ==
  LET raw == split(t)
      sig == {j \in 1..Len(raw) : ~IsBlankLine(raw[j]) /\ ~IsCommentLine(raw[j])}
  IN  IF sig = {} THEN "" ELSE trim(raw[CHOOSE j \in sig : \A k \in sig : j <= k])

\* h begins with an unsupported-dialect keyword
NamesUnsupported(h) ==
  \E i \in 1..Len(UNSUPPORTED_TYPES) : StartsNoCase(h, UNSUPPORTED_TYPES[i])

\* the length of the keyword h begins with: graph or flowchart, in any letter case; else 0
HeaderKeyword(h) ==
  IF StartsNoCase(h, "graph") THEN 5 ELSE IF StartsNoCase(h, "flowchart") THEN 9 ELSE 0

\* h is graph|flowchart, whitespace, and a direction token that begins with a letter
IsFlowHeader(h) ==
  LET k == HeaderKeyword(h)
  IN  /\ k > 0
      /\ \E w \in 1..Len(h) :
           /\ k + w < Len(h)
           /\ \A j \in 1..w : Ch(h, k + j) \in WhiteSpace
           /\ Ch(h, k + w + 1) \in Letters

\* DIR of a flow header: the letters of its direction token
HeaderDir(h) ==
  LET k == HeaderKeyword(h)
      a == CHOOSE j \in (k + 2)..Len(h) :
             Ch(h, j) \in Letters /\ \A m \in (k + 1)..(j - 1) : Ch(h, m) \in WhiteSpace
      b == CHOOSE j \in a..Len(h) :
             /\ \A m \in a..j : Ch(h, m) \in Letters
             /\ j = Len(h) \/ Ch(h, j + 1) \notin Letters
  IN  SubSeq(h, a, b)

\* the header is accepted: a flow header that names no unsupported dialect
Accepted(t) ==
  LET h == FirstSignificant(t)
  IN  IsFlowHeader(h) /\ ~NamesUnsupported(h)

\* ------------------------------------------------------------------------
\* Claims
\* ------------------------------------------------------------------------

\* C1: whenever the first significant line begins, in any letter case, with one of
\* the twelve unsupported-dialect keywords, parse throws UnsupportedDiagramError and
\* the message holds that keyword: stateDiagram-v2 for a stateDiagram-v2 header.
C1_NamesMatchedKeyword ==
  pc # "start" =>
    \A i \in 1..Len(UNSUPPORTED_TYPES) :
      StartsNoCase(FirstSignificant(text), UNSUPPORTED_TYPES[i]) =>
        /\ pc = "thrown"
        /\ thrown # null
        /\ thrown.name = "UnsupportedDiagramError"
        /\ includes(thrown.message, UNSUPPORTED_TYPES[i])

C3_DirectionUppercased ==
  /\ (pc # "start" /\ Accepted(text)) =>
       LET DIR == HeaderDir(FirstSignificant(text))
       IN  /\ pc \in {"loop", "returned"}
           /\ Len(direction) = Len(DIR)
           /\ \A j \in 1..Len(direction) :
                /\ Ch(direction, j) \in UpperSet
                /\ SameNoCase(Ch(direction, j), Ch(DIR, j))
  /\ pc \in {"loop", "returned"} =>
       /\ Len(direction) >= 1
       /\ \A j \in 1..Len(direction) : Ch(direction, j) \in UpperSet

\* a mixed-case header was accepted and its direction uppercased
C3_Witness ==
  /\ pc = "returned"
  /\ FirstSignificant(text) = "Flowchart \t bT"
  /\ direction = "BT"

\* C4: parse fails only at header classification.  After an accepted header nothing is
\* thrown, whatever the body lines are, every line is visited and the Graph returned;
\* and when parse throws, it throws UnsupportedDiagramError with no body line processed.
C4_ThrowsOnlyAtHeader ==
  LET accepted == Accepted(text)
  IN  /\ accepted => pc # "thrown" /\ thrown = null
      /\ thrown # null =>
           /\ pc = "thrown"
           /\ thrown.name = "UnsupportedDiagramError"
           /\ next = 0 /\ subgraphs = <<>> /\ edges = <<>> /\ labels = noLabels
           /\ lineEdges = <<>> /\ currentSubgraph = 0
      /\ pc = "thrown" => thrown # null /\ ~accepted
      /\ pc = "loop" => accepted /\ next \in 2..(Len(lines) + 1)
      /\ pc = "returned" => accepted /\ next = Len(lines) + 1

\* a Graph was returned for a body with an unmatched shape, a dangling arrow after a
\* chain and an end with no subgraph open
C4_Witness ==
  /\ pc = "returned"
  /\ \E j \in 2..Len(lines) : trim(lines[j]) = "A[z"
  /\ \E j \in 2..Len(lines) : trim(lines[j]) = "end"
  /\ subgraphs = <<>>

\* ------------------------------------------------------------------------
\* The line the loop has just processed, and what the input pools say of it
\* ------------------------------------------------------------------------

\* an iteration of the for loop has completed
Processed == pc \in {"loop", "returned"} /\ next > 2

\* the line of that iteration
lastLine == lines[next - 1]

\* the chain lines of the body pool: the text, and the identifiers of its tokens
BodyChains ==
  {[text |-> "A --> B", ids |-> <<"A", "B">>],
   [text |-> "A[x] --> B[x] --> A[w]", ids |-> <<"A", "B", "A">>]}

\* every chain of two or more tokens the texts are built from
ChainCatalogue == BodyChains \cup UNION {Chains(n) : n \in 2..MaxChain}

ChainLineTexts == {c.text : c \in ChainCatalogue}

\* the identifiers a non-empty sequence of edges passes through
EdgeIds(es) == <<es[1].source>> \o [j \in 1..Len(es) |-> es[j].target]

\* es are the last entries of all, in the same order
IsSuffix(es, all) ==
  /\ Len(es) <= Len(all)
  /\ \A j \in 1..Len(es) : all[Len(all) - Len(es) + j] = es[j]

\* the line of the last iteration is the chain t1..tn of the catalogue and has yielded
\* the edges (t1,t2), ..., (t(n-1),tn), the last entries of Graph.edges
ChainYieldsItsEdges ==
  /\ Len(lineEdges) >= 1
  /\ [text |-> trim(lastLine), ids |-> EdgeIds(lineEdges)] \in ChainCatalogue
  /\ \A j \in 1..(Len(lineEdges) - 1) : lineEdges[j].target = lineEdges[j + 1].source
  /\ IsSuffix(lineEdges, edges)

\* C5 as stated: every line that is a chain of n >= 2 node tokens separated by arrows,
\* each arrow followed by whitespace, yields the n-1 edges between neighbours, appended
\* to Graph.edges from left to right.
C5_EveryChainYieldsEdges ==
  (Processed /\ trim(lastLine) \in ChainLineTexts) => ChainYieldsItsEdges

\* C5, amended: a chain line of n >= 2 node tokens that reaches the edge-chain rule (no
\* earlier rule takes it as a comment, a direction hint, a subgraph opening or an end)
\* yields exactly the n-1 edges (t1,t2), ..., (t(n-1),tn), appended to Graph.edges in
\* that order.
C5_DispatchedChainYieldsEdges ==
  (Processed /\ trim(lastLine) \in ChainLineTexts /\ ReachesEdges(lastLine)) =>
    ChainYieldsItsEdges

\* a chain of three tokens, the middle one the target of the first edge and the source
\* of the second, which carries the arrow's label
C5_Witness ==
  /\ Processed
  /\ trim(lastLine) = "B[b]-.- A ==>|l|\tdirection"
  /\ Len(lineEdges) = 2
  /\ lineEdges[1] = [source |-> "B", target |-> "A"]
  /\ lineEdges[2] = [source |-> "A", target |-> "direction", label |-> "l"]
  /\ edges = lineEdges

\* the single-arrow lines of the arrow texts: the trimmed line, and what follows the arrow
ArrowCatalogue ==
  {[text |-> trim(src \o pre \o ARROWS[i] \o tail \o post), tail |-> tail] :
     src \in {"A", "subgraph"}, pre \in {"", " "}, i \in 1..Len(ARROWS),
     tail \in ArrowTails, post \in {" B", "\t B", "B", ""}}

\* what follows the arrow is |text|, after optional spaces and tabs
HasBars(tail) ==
  LET b == Span(tail, Blank)
  IN  /\ startsWith(slice(tail, b), "|")
      /\ SpanUntil(slice(tail, b + 1), {"|"}) < Len(tail) - b - 1

\* the text between the bars
BarText(tail) ==
  LET b == Span(tail, Blank)
  IN  take(slice(tail, b + 1), SpanUntil(slice(tail, b + 1), {"|"}))

\* the one edge of the last iteration has exactly this label
LabelIs(l) == "label" \in DOMAIN lineEdges[1] /\ lineEdges[1].label = l

\* the line of the last iteration is a single-arrow line of the catalogue whose arrow is
\* followed by tail, and it has formed its edge, the last entry of Graph.edges
ArrowFormedEdge(tail) ==
  /\ Processed
  /\ Len(lineEdges) = 1
  /\ [text |-> trim(lastLine), tail |-> tail] \in ArrowCatalogue
  /\ IsSuffix(lineEdges, edges)

\* C6 as stated: the edge of an arrow followed by |text| has label = trim(text), and the
\* edge of an arrow with no |...| part has no label property.
C6_LabelIsTrimmedText ==
  \A tail \in ArrowTails :
    ArrowFormedEdge(tail) =>
      IF HasBars(tail) THEN LabelIs(trim(BarText(tail)))
      ELSE "label" \notin DOMAIN lineEdges[1]

\* C6, amended: the edge of an arrow followed by |text| has label = trim(text) when that
\* is not empty; the edge has no label property when the arrow has no |...| part or the
\* trimmed text is empty.
C6_NonEmptyLabelIsTrimmedText ==
  \A tail \in ArrowTails :
    ArrowFormedEdge(tail) =>
      IF HasBars(tail) /\ trim(BarText(tail)) # "" THEN LabelIs(trim(BarText(tail)))
      ELSE "label" \notin DOMAIN lineEdges[1]

\* an arrow followed, after a space, by a label with blanks inside the bars: the edge
\* carries the trimmed text
C6_Witness ==
  /\ ArrowFormedEdge(" |  a b\t|")
  /\ trim(lastLine) = "A -.->" \o " |  a b\t|" \o "\t B"
  /\ lineEdges[1] = [source |-> "A", target |-> "B", label |-> "a b"]

\* the shape patterns that match what follows the identifier of token t
MatchingShapes(t) ==
  {i \in 1..Len(SHAPE_PATTERNS) :
     shapeExec(SHAPE_PATTERNS[i], slice(t, Span(t, WordChars))) # null}

\* the match of the first of them in priority order
FirstShapeMatch(t) ==
  shapeExec(SHAPE_PATTERNS[CHOOSE i \in MatchingShapes(t) :
                             \A k \in MatchingShapes(t) : i <= k],
            slice(t, Span(t, WordChars)))

\* s without the double quotes that wrap it, if a pair does
StripWrapping(s) ==
  IF Len(s) >= 2 /\ Ch(s, 1) = "\"" /\ Ch(s, Len(s)) = "\""
  THEN SubSeq(s, 2, Len(s) - 1)
  ELSE s

\* the token C7 describes at the start of t, which begins with an identifier
ClaimedToken(t) ==
  IF MatchingShapes(t) = {}
  THEN [id |-> take(t, Span(t, WordChars)), consumed |-> Span(t, WordChars)]
  ELSE [id       |-> take(t, Span(t, WordChars)),
        label    |-> StripWrapping(FirstShapeMatch(t).captured),
        consumed |-> Span(t, WordChars) + FirstShapeMatch(t).length]

\* C7: the node token at the start of a line is the identifier and the first shape
\* pattern, in priority order, that matches after it; its label is the captured text
\* with wrapping double quotes stripped and its consumed length is identifier length
\* plus matched length; with no match there is no label and only the identifier is
\* consumed.  The label is what labels holds for the identifier once the line is parsed.
C7_TokenAsClaimed ==
  (Processed /\ ReachesEdges(lastLine) /\ Span(trim(lastLine), WordChars) > 0) =>
    /\ parseNodeToken(trim(lastLine)) = ClaimedToken(trim(lastLine))
    /\ (text \in ShapeTexts /\ next = 4) =>
         labels = noteLabel(noLabels, ClaimedToken(trim(lastLine)))

\* C8: in every Graph returned, the nodes of each SubGraph are duplicate-free.
C8_SubgraphNodesDuplicateFree ==
  pc = "returned" =>
    \A g \in 1..Len(subgraphs) :
      \A i, j \in 1..Len(subgraphs[g].nodes) :
        subgraphs[g].nodes[i] = subgraphs[g].nodes[j] => i = j

\* the edge occurrences recognised on lines 2..j of ls, in text order
RECURSIVE RecognisedEdges(_, _)
RecognisedEdges(ls, j) ==
  IF j < 2 THEN <<>>
  ELSE RecognisedEdges(ls, j - 1)
         \o (IF ReachesEdges(ls[j]) THEN parseEdgeLine(ls[j], noLabels).edges ELSE <<>>)

\* how many of the lines 2..j of ls are, trimmed, the text t
LinesThatAre(ls, j, t) == Cardinality({k \in 2..j : trim(ls[k]) = t})

\* C9: Graph.edges holds one entry for every edge occurrence recognised so far, in
\* line order and left to right within a line, none merged or removed; in the body
\* texts there are as many entries from A to B as lines with an arrow from A to B.
C9_ParallelEdgesPreserved ==
  pc \in {"loop", "returned"} =>
    /\ edges = RecognisedEdges(lines, next - 1)
    /\ text \in BodyTexts =>
         Cardinality({i \in 1..Len(edges) : edges[i] = [source |-> "A", target |-> "B"]})
           = LinesThatAre(lines, next - 1, "A --> B")
               + LinesThatAre(lines, next - 1, "A[x] --> B[x] --> A[w]")

\* three lines A --> B have given three equal entries
C9_Witness ==
  /\ pc = "returned"
  /\ LinesThatAre(lines, Len(lines), "A --> B") = 3
  /\ edges = << [source |-> "A", target |-> "B"], [source |-> "A", target |-> "B"],
                [source |-> "A", target |-> "B"] >>

\* the labelled node tokens of a line of the body pool, from left to right
BodyLabels(t) ==
  IF t = "A[x] --> B[x] --> A[w]"
  THEN << [id |-> "A", label |-> "x"], [id |-> "B", label |-> "x"],
          [id |-> "A", label |-> "w"] >>
  ELSE IF t = "A[y]" THEN << [id |-> "A", label |-> "y"] >>
  ELSE <<>>

\* the labelled occurrences on lines 2..j of ls, in text order
RECURSIVE LabelledOccurrences(_, _)
LabelledOccurrences(ls, j) ==
  IF j < 2 THEN <<>> ELSE LabelledOccurrences(ls, j - 1) \o BodyLabels(trim(ls[j]))

\* C10: labels holds, for every identifier with a labelled occurrence so far, the label
\* of the last one in text order, and nothing for the others; an unlabelled occurrence
\* changes nothing, and nothing is thrown.
C10_LastLabelWins ==
  (text \in BodyTexts /\ pc \in {"loop", "returned"}) =>
    LET occ == LabelledOccurrences(lines, next - 1)
    IN  /\ thrown = null
        /\ DOMAIN labels = {occ[i].id : i \in 1..Len(occ)}
        /\ \A i \in 1..Len(occ) :
             (\A k \in (i + 1)..Len(occ) : occ[k].id # occ[i].id) =>
               labels[occ[i].id] = occ[i].label

\* A labelled twice in one chain, then on a later line, then met without a label
C10_Witness ==
  /\ pc = "returned"
  /\ Len(lines) = 4
  /\ trim(lines[2]) = "A[x] --> B[x] --> A[w]"
  /\ trim(lines[3]) = "A[y]"
  /\ trim(lines[4]) = "A"
  /\ labels = [x \in {"A", "B"} |-> IF x = "A" THEN "y" ELSE "x"]

\* ------------------------------------------------------------------------
\* models.ts: allNodeNames and nodeSubgraph
\* ------------------------------------------------------------------------

\* the characters of the node names, and the comma of join(","), in increasing order
\* of UTF-16 code unit
CodeUnitOrder == ",0123456789ABCDEFGHIJKLMNOPQRSTUVWXYZ_abcdefghijklmnopqrstuvwxyz"

codeUnitRank(c) == CHOOSE i \in 1..Len(CodeUnitOrder) : Ch(CodeUnitOrder, i) = c

\* a sorts before b under sort() with no comparator: by UTF-16 code units, a proper
\* prefix first
RECURSIVE codeUnitLess(_, _)
codeUnitLess(a, b) ==
  IF Len(b) = 0 THEN FALSE
  ELSE IF Len(a) = 0 THEN TRUE
  ELSE IF Ch(a, 1) = Ch(b, 1) THEN codeUnitLess(slice(a, 1), slice(b, 1))
  ELSE codeUnitRank(Ch(a, 1)) < codeUnitRank(Ch(b, 1))

\* names.add(n): a Set keeps insertion order and ignores a value it holds
add(set, n) ==
  IF \E j \in 1..Len(set) : set[j] = n THEN set ELSE Append(set, n)

\* for (const n of sg.nodes) names.add(n), from member j on
RECURSIVE addNodes(_, _, _)
addNodes(set, nodes, j) ==
  IF j > Len(nodes) THEN set ELSE addNodes(add(set, nodes[j]), nodes, j + 1)

\* for (const sg of graph.subgraphs) ..., from subgraph i on
RECURSIVE addSubgraphs(_, _, _)
addSubgraphs(set, sgs, i) ==
  IF i > Len(sgs) THEN set ELSE addSubgraphs(addNodes(set, sgs[i].nodes, 1), sgs, i + 1)

\* for (const e of graph.edges) { names.add(e.source); names.add(e.target) }
RECURSIVE addEdges(_, _, _)
addEdges(set, es, j) ==
  IF j > Len(es) THEN set
  ELSE addEdges(add(add(set, es[j].source), es[j].target), es, j + 1)

\* the array returned as it is, sort() forgotten
unsorted(xs) == xs

\* [...names].sort(): the strings in increasing code unit order
RECURSIVE sort(_)
sort(xs) ==
  IF Len(xs) = 0 THEN <<>>
  ELSE LET done == sort(SubSeq(xs, 1, Len(xs) - 1))
           x    == xs[Len(xs)]
           k    == Cardinality({j \in 1..Len(done) : ~codeUnitLess(x, done[j])})
       IN  SubSeq(done, 1, k) \o <<x>> \o SubSeq(done, k + 1, Len(done))

allNodeNames(graph) ==
  sort(addEdges(addSubgraphs(<<>>, graph.subgraphs, 1), graph.edges, 1))

\* the loop of nodeSubgraph taken from the last subgraph to the first
RECURSIVE nodeSubgraphLast(_, _, _)
nodeSubgraphLast(graph, name, i) ==
  IF i > Len(graph.subgraphs) THEN undefined
  ELSE LET later == nodeSubgraphLast(graph, name, i + 1)
       IN  IF later # undefined THEN later
           ELSE IF \E j \in 1..Len(graph.subgraphs[i].nodes) :
                     graph.subgraphs[i].nodes[j] = name
                THEN [name |-> graph.subgraphs[i].name]
                ELSE undefined

\* the loop of nodeSubgraph from subgraph i on: {name: sg.name}, or undefined
RECURSIVE nodeSubgraphFrom(_, _, _)
nodeSubgraphFrom(graph, name, i) ==
  IF i > Len(graph.subgraphs) THEN undefined
  ELSE IF \E j \in 1..Len(graph.subgraphs[i].nodes) : graph.subgraphs[i].nodes[j] = name
       THEN [name |-> graph.subgraphs[i].name]
       ELSE nodeSubgraphFrom(graph, name, i + 1)

nodeSubgraph(graph, name) == nodeSubgraphFrom(graph, name, 1)

\* the most members a subgraph of the graphs has
MaxMembers == 2

NodeNames == {"a", "B", "ab"}

\* the member lists: duplicates and any order included
MemberLists == UNION {[1..n -> NodeNames] : n \in 0..MaxMembers}

\* the subgraph lists: none, one or two subgraphs, the first declared named g2
SubgraphLists ==
  {<<>>}
    \cup {<< [name |-> "g2", nodes |-> m] >> : m \in MemberLists}
    \cup {<< [name |-> "g2", nodes |-> m], [name |-> "g1", nodes |-> k] >> :
            m \in MemberLists, k \in MemberLists}

\* the edge lists: none, one edge, parallel edges, a self-loop, a labelled edge
EdgeLists ==
  { <<>>,
    << [source |-> "b", target |-> "a"] >>,
    << [source |-> "a", target |-> "B"], [source |-> "a", target |-> "B"] >>,
    << [source |-> "Z", target |-> "Z"], [source |-> "a_", target |-> "a0", label |-> "l"] >> }

Graphs == {[subgraphs |-> sgs, edges |-> es] : sgs \in SubgraphLists, es \in EdgeLists}

InitModels ==
  /\ mermaidGraph \in Graphs
  /\ call = "none"
  /\ nodeNames = <<>>
  /\ nodeName = ""
  /\ found = undefined
  /\ ParseIdle
  /\ HtmlIdle
  /\ ViewerIdle
  /\ ServerIdle

CallAllNodeNames ==
  /\ call = "none"
  /\ call' = "allNodeNames"
  /\ nodeNames' = allNodeNames(mermaidGraph)
  /\ UNCHANGED << mermaidGraph, nodeName, found >>
  /\ UNCHANGED outsideModels

CallNodeSubgraph ==
  /\ call = "none"
  /\ \E n \in NodeNames \cup {"b", "g2", ""} :
       /\ nodeName' = n
       /\ found' = nodeSubgraph(mermaidGraph, n)
  /\ call' = "nodeSubgraph"
  /\ UNCHANGED << mermaidGraph, nodeNames >>
  /\ UNCHANGED outsideModels

NextModels ==
  \/ CallAllNodeNames
  \/ CallNodeSubgraph

SpecModels == InitModels /\ [][NextModels]_vars

\* a comes strictly before b in case-sensitive code unit lexicographic order
CodeUnitBefore(a, b) ==
  \E k \in 1..Len(b) :
    /\ k - 1 <= Len(a)
    /\ \A j \in 1..(k - 1) : Ch(a, j) = Ch(b, j)
    /\ \/ k > Len(a)
       \/ codeUnitRank(Ch(a, k)) < codeUnitRank(Ch(b, k))

\* every subgraph member and every edge endpoint of g
MembersAndEndpoints(g) ==
  UNION {{g.subgraphs[i].nodes[j] : j \in 1..Len(g.subgraphs[i].nodes)} :
           i \in 1..Len(g.subgraphs)}
    \cup {g.edges[i].source : i \in 1..Len(g.edges)}
    \cup {g.edges[i].target : i \in 1..Len(g.edges)}

\* what allNodeNames returned is strictly increasing and holds exactly the subgraph
\* members and the edge endpoints
SortedUnion ==
  call = "allNodeNames" =>
    /\ \A i \in 1..(Len(nodeNames) - 1) : CodeUnitBefore(nodeNames[i], nodeNames[i + 1])
    /\ {nodeNames[i] : i \in 1..Len(nodeNames)} = MembersAndEndpoints(mermaidGraph)

\* C11: allNodeNames(graph) returns a strictly increasing list, in case-sensitive code
\* unit order and so without duplicates, whose elements are exactly the subgraph
\* members and the edge sources and targets, also for graphs with duplicated members
\* or parallel edges; and no step modifies the graph.
C11_AllNodeNamesSortedUnion ==
  []SortedUnion /\ [][mermaidGraph' = mermaidGraph]_vars

\* a graph with a member listed twice, a member of both subgraphs and parallel edges:
\* each name once, the uppercase name first
C11_Witness ==
  /\ call = "allNodeNames"
  /\ mermaidGraph.subgraphs = << [name |-> "g2", nodes |-> <<"ab", "ab">>],
                                 [name |-> "g1", nodes |-> <<"ab", "a">>] >>
  /\ Len(mermaidGraph.edges) = 2 /\ mermaidGraph.edges[1] = mermaidGraph.edges[2]
  /\ nodeNames = <<"B", "a", "ab">>

\* C12: nodeSubgraph(graph, name) returns the name of the first SubGraph in declaration
\* order whose nodes contain name, and undefined when none contains it.
C12_FirstDeclaredSubgraph ==
  call = "nodeSubgraph" =>
    LET sgs  == mermaidGraph.subgraphs
        with == {i \in 1..Len(sgs) : \E j \in 1..Len(sgs[i].nodes) : sgs[i].nodes[j] = nodeName}
    IN  IF with = {} THEN found = undefined
        ELSE \E i \in with :
               /\ \A k \in with : i <= k
               /\ found = [name |-> sgs[i].name]

\* a is a member of both subgraphs and the one declared first is returned
C12_Witness ==
  /\ call = "nodeSubgraph"
  /\ nodeName = "a"
  /\ mermaidGraph.subgraphs = << [name |-> "g2", nodes |-> <<"B", "a">>],
                                 [name |-> "g1", nodes |-> <<"a">>] >>
  /\ found = [name |-> "g2"]

\* ------------------------------------------------------------------------
\* Tarjan's strongly connected components, as findCyclicEdgeIds and
\* findSimpleCycles both run it
\* ------------------------------------------------------------------------

\* map.set(k, v)
set(map, k, v) == [x \in (DOMAIN map) \cup {k} |-> IF x = k THEN v ELSE map[x]]

min(a, b) == IF a < b THEN a ELSE b

\* allNodes: the sources and targets of the edges, in insertion order
allNodesOf(es) == addEdges(<<>>, es, 1)

\* adj.get(v) ?? []: the targets of the edges that leave v, in edge order
RECURSIVE adjOf(_, _)
adjOf(es, v) ==
  IF Len(es) = 0 THEN <<>>
  ELSE IF es[1].source = v THEN <<es[1].target>> \o adjOf(Tail(es), v)
  ELSE adjOf(Tail(es), v)

\* the maps and counters before the first strongconnect
tarjanStart ==
  [index |-> [x \in {} |-> 0], lowlink |-> [x \in {} |-> 0], onStack |-> {},
   stack |-> <<>>, sccId |-> [x \in {} |-> 0], sccNodes |-> <<>>,
   counter |-> 0, sccCount |-> 0]

\* do { w = stack.pop(); onStack.delete(w); sccId.set(w, id); members.push(w) }
\* while (w !== v); then sccNodes.set(id, members), with id = sccCount++
RECURSIVE popScc(_, _, _)
popScc(v, st, members) ==
  LET w   == st.stack[Len(st.stack)]
      st1 == [st EXCEPT !.stack = SubSeq(@, 1, Len(@) - 1),
                        !.onStack = @ \ {w},
                        !.sccId = set(@, w, st.sccCount)]
  IN  IF w # v THEN popScc(v, st1, Append(members, w))
      ELSE [st1 EXCEPT !.sccNodes = Append(@, Append(members, w)),
                       !.sccCount = @ + 1]

RECURSIVE strongconnect(_, _, _)
RECURSIVE neighbours(_, _, _, _, _)

\* the for loop of strongconnect(v) over ws = adj.get(v) ?? [], from neighbour k on
neighbours(v, ws, k, es, st) ==
  IF k > Len(ws) THEN st
  ELSE IF ws[k] \notin DOMAIN st.index
       THEN LET st1 == strongconnect(ws[k], es, st)
            IN  neighbours(v, ws, k + 1, es,
                  [st1 EXCEPT !.lowlink[v] = min(st1.lowlink[v], st1.lowlink[ws[k]])])
       ELSE IF ws[k] \in st.onStack
            THEN neighbours(v, ws, k + 1, es,
                   [st EXCEPT !.lowlink[v] = min(st.lowlink[v], st.index[ws[k]])])
            ELSE neighbours(v, ws, k + 1, es, st)

strongconnect(v, es, st) ==
  LET st1 == [st EXCEPT !.index = set(@, v, st.counter),
                        !.lowlink = set(@, v, st.counter),
                        !.counter = @ + 1,
                        !.stack = Append(@, v),
                        !.onStack = @ \cup {v}]
      st2 == neighbours(v, adjOf(es, v), 1, es, st1)
  IN  IF st2.lowlink[v] = st2.index[v] THEN popScc(v, st2, <<>>) ELSE st2

\* for (const node of allNodes) if (!index.has(node)) strongconnect(node)
RECURSIVE tarjanFrom(_, _, _, _)
tarjanFrom(nodes, i, es, st) ==
  IF i > Len(nodes) THEN st
  ELSE IF nodes[i] \in DOMAIN st.index THEN tarjanFrom(nodes, i + 1, es, st)
  ELSE tarjanFrom(nodes, i + 1, es, strongconnect(nodes[i], es, st))

tarjan(es) == tarjanFrom(allNodesOf(es), 1, es, tarjanStart)

\* sccSizes.get(id): size counts the members popped
sccSizes(st, id) == Len(st.sccNodes[id + 1])

\* ------------------------------------------------------------------------
\* generate-html.ts: the edge elements
\* ------------------------------------------------------------------------

\* `${e.source}__${e.target}`
edgeId(e) == e.source \o "__" \o e.target

\* selfLoop || inCycle
inCycleOrSelfLoop(e, st) ==
  \/ e.source = e.target
  \/ /\ st.sccId[e.target] = st.sccId[e.source]
     /\ sccSizes(st, st.sccId[e.source]) > 1

\* findCyclicEdgeIds(edges): the Set of ids
findCyclicEdgeIds(es) ==
  LET st == tarjan(es)
  IN  {edgeId(es[i]) : i \in {j \in 1..Len(es) : inCycleOrSelfLoop(es[j], st)}}

\* graph.edges.map(...): the edge elements
edgeElementsOf(graph) ==
  LET cyclicEdgeIds == findCyclicEdgeIds(graph.edges)
  IN  [i \in 1..Len(graph.edges) |->
         LET e  == graph.edges[i]
             el == [data |-> [id |-> edgeId(e), source |-> e.source, target |-> e.target]]
         IN  IF edgeId(e) \in cyclicEdgeIds
             THEN [data |-> el.data, classes |-> "cyclic"]
             ELSE el]

\* ------------------------------------------------------------------------
\* generate-html.ts: the node elements and the legend
\* ------------------------------------------------------------------------

PALETTE ==
  << [bg |-> "#7c2d12", border |-> "#f97316"], [bg |-> "#1e3a5f", border |-> "#60a5fa"],
     [bg |-> "#14532d", border |-> "#4ade80"], [bg |-> "#4c1d95", border |-> "#c084fc"],
     [bg |-> "#831843", border |-> "#f472b6"], [bg |-> "#713f12", border |-> "#fbbf24"] >>

UNASSIGNED == [bg |-> "#1f2937", border |-> "#6b7280"]

\* PALETTE[i % PALETTE.length] for the subgraph at position i of the list, the first
\* position being 1
paletteOf(i) == PALETTE[((i - 1) % Len(PALETTE)) + 1]

\* new Map(graph.subgraphs.map((sg, i) => [sg.name, PALETTE[i % PALETTE.length]])):
\* of the entries with one key the last one stays
subgraphColors(graph) ==
  LET sgs == graph.subgraphs
  IN  [n \in {sgs[i].name : i \in 1..Len(sgs)} |->
         paletteOf(CHOOSE i \in 1..Len(sgs) :
                     /\ sgs[i].name = n
                     /\ \A j \in (i + 1)..Len(sgs) : sgs[j].name # n)]

\* sgName ? (subgraphColors.get(sgName) ?? UNASSIGNED) : UNASSIGNED, for sgName as
\* nodeSubgraph returns it: undefined and the empty string are falsy
colorsOf(graph, sg) ==
  IF sg = undefined THEN UNASSIGNED
  ELSE IF sg.name = "" THEN UNASSIGNED
  ELSE IF sg.name \in DOMAIN subgraphColors(graph) THEN subgraphColors(graph)[sg.name]
  ELSE UNASSIGNED

\* allNodeNames(graph).map(...): the node elements
nodeElementsOf(graph) ==
  LET names == allNodeNames(graph)
  IN  [k \in 1..Len(names) |->
         LET sgName == nodeSubgraph(graph, names[k])
             colors == colorsOf(graph, sgName)
         IN  [data |-> [id |-> names[k], label |-> names[k], subgraph |-> sgName,
                        bgColor |-> colors.bg, borderColor |-> colors.border,
                        dotColor |-> colors.border]]]

\* graph.subgraphs.map((sg, i) => ({name, color})): the legend
legendOf(graph) ==
  [i \in 1..Len(graph.subgraphs) |->
     [name |-> graph.subgraphs[i].name, color |-> paletteOf(i).border]]

\* ------------------------------------------------------------------------
\* findSimpleCycles
\* ------------------------------------------------------------------------

\* the elements of a sequence
Elems(xs) == {xs[i] : i \in 1..Len(xs)}

\* (adj.get(node) ?? []).filter((n) => sccSet.has(n))
RECURSIVE filterIn(_, _)
filterIn(ns, sccSet) ==
  IF Len(ns) = 0 THEN <<>>
  ELSE IF ns[1] \in sccSet THEN <<ns[1]>> \o filterIn(Tail(ns), sccSet)
  ELSE filterIn(Tail(ns), sccSet)

sccAdj(es, members, node) == filterIn(adjOf(es, node), Elems(members))

\* the loop for minIdx from i on: the first position of the smallest node
RECURSIVE minIdxFrom(_, _, _)
minIdxFrom(path, i, minIdx) ==
  IF i > Len(path) THEN minIdx
  ELSE minIdxFrom(path, i + 1, IF codeUnitLess(path[i], path[minIdx]) THEN i ELSE minIdx)

\* the path as it is, the rotation forgotten
unrotated(path) == path

\* [...path.slice(minIdx), ...path.slice(0, minIdx)]
canonical(path) ==
  LET minIdx == minIdxFrom(path, 2, 1)
  IN  SubSeq(path, minIdx, Len(path)) \o SubSeq(path, 1, minIdx - 1)

\* if (!seen.has(key)) { seen.add(key); cycles.push(cycle) }: seen holds the keys of
\* the cycles pushed
pushUnseen(cs, cycle) ==
  IF \E i \in 1..Len(cs) : cs[i] = cycle THEN cs ELSE Append(cs, cycle)

\* the self-loop pass left out
selfLoopsSkipped(es, i, cs) == cs

\* the self-loop pass over the edges from edge i on
RECURSIVE selfLoops(_, _, _)
selfLoops(es, i, cs) ==
  IF i > Len(es) THEN cs
  ELSE selfLoops(es, i + 1,
         IF es[i].source = es[i].target THEN pushUnseen(cs, <<es[i].source>>) ELSE cs)

\* dfs(current): the loop over ns = sccAdj.get(current) from neighbour k on; path ends
\* with current and visited holds the nodes of path.  The canonical sequences of the
\* closed paths, in the order the walk closes them
RECURSIVE dfs(_, _, _, _, _, _)
dfs(es, members, start, ns, k, path) ==
  IF k > Len(ns) THEN <<>>
  ELSE (IF ns[k] = start /\ Len(path) > 1 THEN <<canonical(path)>>
        ELSE IF ns[k] \notin Elems(path)
             THEN dfs(es, members, start, sccAdj(es, members, ns[k]), 1,
                      Append(path, ns[k]))
             ELSE <<>>)
         \o dfs(es, members, start, ns, k + 1, path)

\* for (const start of members) dfs(start), from member j on
RECURSIVE fromEachStart(_, _, _)
fromEachStart(es, members, j) ==
  IF j > Len(members) THEN <<>>
  ELSE dfs(es, members, members[j], sccAdj(es, members, members[j]), 1, <<members[j]>>)
         \o fromEachStart(es, members, j + 1)

\* for (const [, members] of sccNodes), from component i on
RECURSIVE fromEachScc(_, _, _)
fromEachScc(es, sccNodes, i) ==
  IF i > Len(sccNodes) THEN <<>>
  ELSE (IF Len(sccNodes[i]) <= 1 THEN <<>> ELSE fromEachStart(es, sccNodes[i], 1))
         \o fromEachScc(es, sccNodes, i + 1)

\* each closed path, in order, pushed unless seen
RECURSIVE pushAllUnseen(_, _, _)
pushAllUnseen(cs, closed, i) ==
  IF i > Len(closed) THEN cs
  ELSE pushAllUnseen(pushUnseen(cs, closed[i]), closed, i + 1)

\* a.join(",")
RECURSIVE joinComma(_)
joinComma(a) ==
  IF Len(a) = 0 THEN ""
  ELSE IF Len(a) = 1 THEN a[1]
  ELSE a[1] \o "," \o joinComma(Tail(a))

\* the comparator of cycles.sort is negative for (a, b)
cycleCompareNegative(a, b) ==
  IF Len(a) # Len(b) THEN Len(a) < Len(b)
  ELSE codeUnitLess(joinComma(a), joinComma(b))

\* cycles.sort(comparator)
RECURSIVE sortCycles(_)
sortCycles(cs) ==
  IF Len(cs) = 0 THEN <<>>
  ELSE LET done == sortCycles(SubSeq(cs, 1, Len(cs) - 1))
           c    == cs[Len(cs)]
           k    == Cardinality({j \in 1..Len(done) : ~cycleCompareNegative(c, done[j])})
       IN  SubSeq(done, 1, k) \o <<c>> \o SubSeq(done, k + 1, Len(done))

findSimpleCycles(es) ==
  sortCycles(pushAllUnseen(selfLoops(es, 1, <<>>),
                           fromEachScc(es, tarjan(es).sccNodes, 1), 1))

\* the longest edge list taken in every order
MaxEdgeSeq == 2

CycleNodes == {"a", "b", "c"}

\* every ordered pair of the three nodes, in a fixed order
CyclePairs ==
  << [source |-> "a", target |-> "a"], [source |-> "a", target |-> "b"],
     [source |-> "a", target |-> "c"], [source |-> "b", target |-> "a"],
     [source |-> "b", target |-> "b"], [source |-> "b", target |-> "c"],
     [source |-> "c", target |-> "a"], [source |-> "c", target |-> "b"],
     [source |-> "c", target |-> "c"] >>

\* the pairs whose position is in S, in that fixed order
RECURSIVE pairsIn(_, _)
pairsIn(S, i) ==
  IF i > Len(CyclePairs) THEN <<>>
  ELSE IF i \in S THEN <<CyclePairs[i]>> \o pairsIn(S, i + 1)
  ELSE pairsIn(S, i + 1)

\* a ring on a, b, c, d with two chords and a back edge
RingOnFour ==
  << [source |-> "d", target |-> "a"], [source |-> "a", target |-> "b"],
     [source |-> "b", target |-> "c"], [source |-> "c", target |-> "d"],
     [source |-> "a", target |-> "c"], [source |-> "c", target |-> "a"],
     [source |-> "b", target |-> "d"] >>

\* every graph on three nodes, short edge lists in every order with repetitions, and
\* lists whose node names differ in case, share a prefix or hold the id separator
CycleEdgeLists ==
  {pairsIn(S, 1) : S \in SUBSET (1..Len(CyclePairs))}
    \cup UNION {[1..n -> Elems(CyclePairs)] : n \in 0..MaxEdgeSeq}
    \cup { RingOnFour,
           << [source |-> "d", target |-> "c"], [source |-> "c", target |-> "b"],
              [source |-> "b", target |-> "a"], [source |-> "a", target |-> "d"] >>,
           << [source |-> "b", target |-> "B"], [source |-> "B", target |-> "b"] >>,
           << [source |-> "ab", target |-> "a"], [source |-> "a", target |-> "a_"],
              [source |-> "a_", target |-> "ab"], [source |-> "a_", target |-> "Z"] >>,
           << [source |-> "a__b", target |-> "c"], [source |-> "c", target |-> "a__b"],
              [source |-> "a", target |-> "b__c"] >>,
           << [source |-> "x", target |-> "y"], [source |-> "y", target |-> "x"],
              [source |-> "x", target |-> "y"], [source |-> "y", target |-> "z"] >> }

\* one subgraph more than the palette has colours, each with one member
SevenSubgraphs ==
  [i \in 1..(Len(PALETTE) + 1) |->
     [name |-> <<"s1", "s2", "s3", "s4", "s5", "s6", "s7">>[i],
      nodes |-> << <<"n1", "n2", "n3", "n4", "n5", "n6", "n7">>[i] >>]]

\* graphs as parse returns them for subgraphs that share a name, for a subgraph with
\* the quoted empty name, and for more subgraphs than colours
ColourGraphs ==
  { [subgraphs |-> << [name |-> "g", nodes |-> <<"A">>], [name |-> "g", nodes |-> <<"B">>] >>,
     edges |-> << [source |-> "A", target |-> "B"] >>],
    [subgraphs |-> << [name |-> "", nodes |-> <<"A">>] >>, edges |-> <<>>],
    [subgraphs |-> << [name |-> "h", nodes |-> <<"A">>], [name |-> "", nodes |-> <<"B">>] >>,
     edges |-> << [source |-> "B", target |-> "C"] >>],
    [subgraphs |-> SevenSubgraphs, edges |-> << [source |-> "n7", target |-> "x"] >>] }

InitHtml ==
  /\ mermaidGraph \in {[subgraphs |-> <<>>, edges |-> es] : es \in CycleEdgeLists}
                        \cup Graphs \cup ColourGraphs
  /\ call = "none"
  /\ nodeNames = <<>>
  /\ nodeName = ""
  /\ found = undefined
  /\ HtmlIdle
  /\ ParseIdle
  /\ ViewerIdle
  /\ ServerIdle

\* generateHtml(graph): the edge elements of the data
GenerateHtml ==
  /\ call = "none"
  /\ call' = "generateHtml"
  /\ edgeElements' = edgeElementsOf(mermaidGraph)
  /\ nodeElements' = nodeElementsOf(mermaidGraph)
  /\ legend' = legendOf(mermaidGraph)
  /\ UNCHANGED << mermaidGraph, nodeNames, nodeName, found, cycles >>
  /\ UNCHANGED outsideHtml

\* findSimpleCycles(graph.edges)
FindSimpleCycles ==
  /\ call = "none"
  /\ call' = "findSimpleCycles"
  /\ cycles' = findSimpleCycles(mermaidGraph.edges)
  /\ UNCHANGED << mermaidGraph, nodeNames, nodeName, found, edgeElements, nodeElements,
                  legend >>
  /\ UNCHANGED outsideHtml

NextHtml ==
  \/ GenerateHtml
  \/ FindSimpleCycles

SpecHtml == InitHtml /\ [][NextHtml]_vars

\* ==========================================================================
\* Claims about the generated edge elements
\* ==========================================================================

\* The nodes reachable from the set S along zero or more edges of es
RECURSIVE ReachFrom(_, _)
ReachFrom(es, S) ==
  LET T == S \cup {es[i].target : i \in {j \in 1..Len(es) : es[j].source \in S}}
  IN  IF T = S THEN S ELSE ReachFrom(es, T)

\* e is a self-loop, or its endpoints lie in one strongly connected component:
\* the source is reachable back from the target
OnCycle(es, e) == e.source \in ReachFrom(es, {e.target})

IsCyclicElement(el) == "classes" \in DOMAIN el /\ el.classes = "cyclic"

\* C13: in the data generated by generateHtml an edge element carries the class
\* 'cyclic' if and only if its edge is a self-loop or has both endpoints in one
\* strongly connected component of more than one node.
C13_CyclicIffOnCycle ==
  call = "generateHtml" =>
    \A i \in 1..Len(edgeElements) :
      IsCyclicElement(edgeElements[i])
        <=> OnCycle(mermaidGraph.edges, mermaidGraph.edges[i])

\* ==========================================================================
\* Claims about the enumerated cycles
\* ==========================================================================

HasEdge(es, a, b) == \E i \in 1..Len(es) : es[i].source = a /\ es[i].target = b

\* p is a simple cycle of es: no node twice, every consecutive pair and the pair from
\* the last node back to the first an edge
IsSimpleCycle(es, p) ==
  /\ Len(p) >= 1
  /\ \A i, j \in 1..Len(p) : p[i] = p[j] => i = j
  /\ \A i \in 1..(Len(p) - 1) : HasEdge(es, p[i], p[i + 1])
  /\ HasEdge(es, p[Len(p)], p[1])

\* the first node of p is the smallest of its nodes
SmallestFirst(p) == \A i \in 2..Len(p) : CodeUnitBefore(p[1], p[i])

\* every simple cycle of es, as the rotation that starts at its smallest node
SimpleCyclesOf(es) ==
  LET nodes == {es[i].source : i \in 1..Len(es)} \cup {es[i].target : i \in 1..Len(es)}
  IN  {p \in UNION {[1..n -> nodes] : n \in 1..Cardinality(nodes)} :
         IsSimpleCycle(es, p) /\ SmallestFirst(p)}

\* p comes before q, node by node
NodeSequenceBefore(p, q) ==
  \E k \in 1..Len(q) :
    /\ k - 1 <= Len(p)
    /\ \A j \in 1..(k - 1) : p[j] = q[j]
    /\ k > Len(p) \/ CodeUnitBefore(p[k], q[k])

\* C14: findSimpleCycles(edges) returns exactly the simple cycles of the graph, each
\* once, as the rotation that puts the smallest node first (self-loops as one-node
\* cycles), ordered by length and then by node sequence.
C14_ExactlyTheSimpleCycles ==
  call = "findSimpleCycles" =>
    /\ {cycles[i] : i \in 1..Len(cycles)} = SimpleCyclesOf(mermaidGraph.edges)
    /\ \A i, j \in 1..Len(cycles) : cycles[i] = cycles[j] => i = j
    /\ \A i \in 1..(Len(cycles) - 1) :
         \/ Len(cycles[i]) < Len(cycles[i + 1])
         \/ /\ Len(cycles[i]) = Len(cycles[i + 1])
            /\ NodeSequenceBefore(cycles[i], cycles[i + 1])

\* both directions of the triangle, a two-node cycle and a self-loop were returned
C14_Witness ==
  /\ call = "findSimpleCycles"
  /\ \E i, j, k, l \in 1..Len(cycles) :
       /\ cycles[i] = <<"a">>
       /\ cycles[j] = <<"b", "c">>
       /\ cycles[k] = <<"a", "b", "c">>
       /\ cycles[l] = <<"a", "c", "b">>

\* ==========================================================================
\* viewer/index.ts: selection, highlight, reset and search
\* ==========================================================================

\* eles.outgoers("node") and eles.incomers("node") over the edges of the data
outgoers(es, eles) == {es[i].target : i \in {j \in 1..Len(es) : es[j].source \in eles}}

incomers(es, eles) == {es[i].source : i \in {j \in 1..Len(es) : es[j].target \in eles}}

\* one step only, the traversal forgotten
successorsOneStep(es, eles, sEles) == sEles \cup outgoers(es, eles)

\* node.successors("node"): outgoers of outgoers until nothing new is met
RECURSIVE successorsFrom(_, _, _)
successorsFrom(es, eles, sEles) ==
  LET out == outgoers(es, eles)
  IN  IF out \subseteq sEles THEN sEles ELSE successorsFrom(es, out, sEles \cup out)

\* node.predecessors("node"): incomers of incomers until nothing new is met
RECURSIVE predecessorsFrom(_, _, _)
predecessorsFrom(es, eles, sEles) ==
  LET inc == incomers(es, eles)
  IN  IF inc \subseteq sEles THEN sEles ELSE predecessorsFrom(es, inc, sEles \cup inc)

\* reachableNodes of reachable(node)
reachableNodes(es, id) ==
  successorsFrom(es, {id}, {}) \cup predecessorsFrom(es, {id}, {}) \cup {id}

\* eles.edgesWith(eles): the positions of the edges between two nodes of eles
edgesWith(es, eles) ==
  {i \in 1..Len(es) : es[i].source \in eles /\ es[i].target \in eles}

HighlightClasses == {"highlighted", "selected-node", "dimmed"}

\* cy.elements().removeClass("highlighted selected-node dimmed");
\* cy.elements().not(connected).addClass("dimmed"); connected.addClass("highlighted")
highlightOnly(classes, connected) ==
  [x \in DOMAIN classes |->
     (classes[x] \ HighlightClasses)
       \cup (IF x \in connected THEN {"highlighted"} ELSE {"dimmed"})]

\* node.addClass("selected-node")
addSelected(classes, id) ==
  [x \in DOMAIN classes |-> IF x = id THEN classes[x] \cup {"selected-node"} ELSE classes[x]]

\* only the dimming removed
removeDimmedOnly(classes) == [x \in DOMAIN classes |-> classes[x] \ {"dimmed"}]

\* cy.elements().removeClass("highlighted selected-node dimmed")
removeHighlight(classes) == [x \in DOMAIN classes |-> classes[x] \ HighlightClasses]

\* the edges selectCycle collects: cy.edges(`[source = "${src}"][target = "${tgt}"]`)
\* for each node of the cycle and the node after it
cycleEdges(es, cycle) ==
  {i \in 1..Len(es) :
     \E k \in 1..Len(cycle) :
       es[i].source = cycle[k] /\ es[i].target = cycle[(k % Len(cycle)) + 1]}

\* the items the search listener hides for the value of the input
hiddenFor(ids, value) ==
  LET q == toLowerCase(trim(value))
  IN  {id \in ids : q # "" /\ ~includes(id, q)}

MaxViewerEdges == 2

\* the example of a chain with an isolated node
ChainAndIsolated ==
  [subgraphs |-> << [name |-> "misc", nodes |-> <<"utils">>] >>,
   edges |-> << [source |-> "api", target |-> "service"],
                [source |-> "service", target |-> "log"],
                [source |-> "log", target |-> "db"] >>]

\* two roots of one sink, a cycle, and ids that differ in case
MixedCase ==
  [subgraphs |-> <<>>,
   edges |-> << [source |-> "AB", target |-> "a"], [source |-> "b", target |-> "a"],
                [source |-> "a", target |-> "Ab"], [source |-> "Ab", target |-> "a"] >>]

\* every graph of at most MaxViewerEdges edges on three nodes beside an isolated node
ViewerGraphs ==
  {[subgraphs |-> << [name |-> "g", nodes |-> <<"u">>] >>, edges |-> pairsIn(S, 1)] :
     S \in {T \in SUBSET (1..Len(CyclePairs)) : Cardinality(T) <= MaxViewerEdges}}
    \cup {ChainAndIsolated, MixedCase}

SearchValues == {"", "  ", " a ", "u", "AB", "zz"}

NodeIds == Elems(allNodeNames(mermaidGraph))

InitViewer ==
  /\ mermaidGraph \in ViewerGraphs
  /\ call = "viewer"
  /\ nodeNames = <<>>
  /\ nodeName = ""
  /\ found = undefined
  /\ edgeElements = <<>>
  /\ cycles = findSimpleCycles(mermaidGraph.edges)
  /\ nodeElements = <<>>
  /\ legend = <<>>
  /\ nodeClasses = [id \in Elems(allNodeNames(mermaidGraph)) |-> {}]
  /\ edgeClasses = [i \in 1..Len(mermaidGraph.edges) |-> {}]
  /\ selectedNode = null
  /\ sidebarActive = {}
  /\ cycleActive = {}
  /\ hidden = {}
  /\ searchValue = ""
  /\ ParseIdle
  /\ ServerIdle

\* what no handler of the page writes: the data of the page
unchangedData ==
  << parseVars, htmlVars, serverVars, mermaidGraph, nodeNames, nodeName, found >>

\* selectNode(node), from a click on a sidebar item or a tap on a node
selectNode ==
  \E id \in NodeIds :
    LET nodes == reachableNodes(mermaidGraph.edges, id)
    IN  /\ call' = "selectNode"
        /\ selectedNode' = [id |-> id]
        /\ nodeClasses' = addSelected(highlightOnly(nodeClasses, nodes), id)
        /\ edgeClasses' = highlightOnly(edgeClasses, edgesWith(mermaidGraph.edges, nodes))
        /\ sidebarActive' = {item \in NodeIds : item = id}
        /\ UNCHANGED << cycleActive, hidden, searchValue >>
        /\ UNCHANGED unchangedData

\* selectCycle(cycle, itemEl), from a click on a cycle item
selectCycle ==
  \E k \in 1..Len(cycles) :
    /\ call' = "selectCycle"
    /\ nodeClasses' = highlightOnly(nodeClasses, Elems(cycles[k]))
    /\ edgeClasses' = highlightOnly(edgeClasses, cycleEdges(mermaidGraph.edges, cycles[k]))
    /\ sidebarActive' = {}
    /\ cycleActive' = {k}
    /\ selectedNode' = null
    /\ UNCHANGED << hidden, searchValue >>
    /\ UNCHANGED unchangedData

\* resetHighlight()
resetHighlight ==
  /\ nodeClasses' = removeHighlight(nodeClasses)
  /\ edgeClasses' = removeHighlight(edgeClasses)
  /\ selectedNode' = null
  /\ sidebarActive' = {}
  /\ cycleActive' = {}

\* a click on the Fit all button
fitBtnClick ==
  /\ call' = "fitBtnClick"
  /\ resetHighlight
  /\ UNCHANGED << hidden, searchValue >>
  /\ UNCHANGED unchangedData

\* a tap on the background of the graph: evt.target === cy
tapBackground ==
  /\ call' = "tapBackground"
  /\ resetHighlight
  /\ UNCHANGED << hidden, searchValue >>
  /\ UNCHANGED unchangedData

\* an input event on the search box
searchInput ==
  \E value \in SearchValues :
    /\ call' = "searchInput"
    /\ searchValue' = value
    /\ hidden' = hiddenFor(NodeIds, value)
    /\ UNCHANGED << nodeClasses, edgeClasses, selectedNode, sidebarActive, cycleActive >>
    /\ UNCHANGED unchangedData

NextViewer ==
  \/ selectNode
  \/ selectCycle
  \/ fitBtnClick
  \/ tapBackground
  \/ searchInput

SpecViewer == InitViewer /\ [][NextViewer]_vars

\* ==========================================================================
\* Claims about the viewer
\* ==========================================================================

Reversed(es) ==
  [i \in DOMAIN es |-> [source |-> es[i].target, target |-> es[i].source]]

\* id, its descendants and its ancestors
Related(es, id) == ReachFrom(es, {id}) \cup ReachFrom(Reversed(es), {id})

\* the highlighted nodes and edges are exactly those of the set H with the edges
\* inside it, and everything else is dimmed
HighlightIs(H) ==
  /\ \A m \in DOMAIN nodeClasses :
       /\ "highlighted" \in nodeClasses[m] <=> m \in H
       /\ "dimmed" \in nodeClasses[m] <=> m \notin H
  /\ \A i \in DOMAIN edgeClasses :
       LET inside == mermaidGraph.edges[i].source \in H /\ mermaidGraph.edges[i].target \in H
       IN  /\ "highlighted" \in edgeClasses[i] <=> inside
           /\ "dimmed" \in edgeClasses[i] <=> ~inside

\* C15: after a node n is selected, the highlighted elements are exactly n, its
\* descendants, its ancestors and the edges between them, everything else is dimmed,
\* n alone carries 'selected-node' and the sidebar item of n alone is active.
C15_SelectionHighlightsRelated ==
  call = "selectNode" =>
    /\ selectedNode # null
    /\ HighlightIs(Related(mermaidGraph.edges, selectedNode.id))
    /\ \A m \in DOMAIN nodeClasses :
         "selected-node" \in nodeClasses[m] <=> m = selectedNode.id
    /\ \A i \in DOMAIN edgeClasses : "selected-node" \notin edgeClasses[i]
    /\ sidebarActive = {selectedNode.id}

\* service is selected in the chain api -> service -> log -> db beside utils, and c
\* would be the case of a node related through mixed directions only
C15_Witness ==
  /\ call = "selectNode"
  /\ mermaidGraph = ChainAndIsolated
  /\ selectedNode = [id |-> "service"]
  /\ "highlighted" \in nodeClasses["db"]
  /\ "highlighted" \in nodeClasses["api"]
  /\ "dimmed" \in nodeClasses["utils"]

\* nothing is highlighted, dimmed, selected or active
Cleared ==
  /\ \A m \in DOMAIN nodeClasses : nodeClasses[m] \cap HighlightClasses = {}
  /\ \A i \in DOMAIN edgeClasses : edgeClasses[i] \cap HighlightClasses = {}
  /\ sidebarActive = {}
  /\ cycleActive = {}
  /\ selectedNode = null

\* C16: after Fit all is clicked or the background is tapped, whatever was selected or
\* searched before, no element carries 'highlighted', 'dimmed' or 'selected-node', no
\* sidebar node item and no cycle item is active, and selectedNode is null.
C16_ResetClearsEverything ==
  call \in {"fitBtnClick", "tapBackground"} => Cleared

\* Fit all was clicked on a page whose search box holds a query that hides items
C16_Witness ==
  /\ call = "fitBtnClick"
  /\ Cleared
  /\ searchValue = "zz"
  /\ hidden # {}
  /\ Len(cycles) > 0

\* the query each value of the search box stands for: the value without the white
\* space around it
TrimmedQuery ==
  [v \in SearchValues |->
     CASE v = "  " -> ""
       [] v = " a " -> "a"
       [] OTHER -> v]

\* q occurs in id
Contains(id, q) == \E i \in 0..Len(id) : startsWith(slice(id, i), q)

VisibleIffContains ==
  call = "searchInput" =>
    \A id \in DOMAIN nodeClasses :
      id \notin hidden
        <=> (TrimmedQuery[searchValue] = "" \/ Contains(id, TrimmedQuery[searchValue]))

SearchKeepsHighlight ==
  (searchValue' # searchValue \/ hidden' # hidden)
    => UNCHANGED << nodeClasses, edgeClasses, selectedNode, sidebarActive, cycleActive >>

\* C17: after a search input a sidebar node item is visible exactly when the trimmed
\* query is empty or the id of the node contains it, so a query equal to an id leaves
\* that node visible; and searching changes no highlight, dim or selection state.
C17_VisibleIffIdContainsQuery ==
  []VisibleIffContains /\ [][SearchKeepsHighlight]_vars

\* ==========================================================================
\* The dev server: serveHtml, errorPage, startServer, and the pages' EventSource
\* ==========================================================================

\* message.replace(/c/g, r) for a one-character pattern
RECURSIVE replaceAll(_, _, _)
replaceAll(s, c, r) ==
  IF s = "" THEN ""
  ELSE (IF Ch(s, 1) = c THEN r ELSE Ch(s, 1)) \o replaceAll(slice(s, 1), c, r)

\* the message as it is
unescaped(message) == message

\* const escaped = message.replace(/&/g, "&amp;").replace(/</g, "&lt;").replace(/>/g, "&gt;")
escaped(message) ==
  replaceAll(replaceAll(replaceAll(message, "&", "&amp;"), "<", "&lt;"), ">", "&gt;")

\* errorPage(message): the <pre> text and the script of the page
errorPage(message) ==
  [kind |-> "error", pre |-> escaped(message), eventSource |-> TRUE, reloadOnOpen |-> FALSE]

\* generateHtml(graph, title, { liveReload: true, viewerUrl: "/viewer.js" })
diagramPage ==
  [kind |-> "diagram", pre |-> "", eventSource |-> TRUE, reloadOnOpen |-> TRUE]

\* what parse(text) throws: null, or the error
parseError(t) ==
  LET h == findHeader(split(trim(t)), 1)
  IN  IF unsupportedType(h) # null
        THEN [message |-> unsupportedMessage(unsupportedType(h).type)]
      ELSE IF SUPPORTED(h) = null THEN [message |-> unrecognisedMessage(h)]
      ELSE null

serveHtml(filePath, f) ==
  IF ~f.exists THEN errorPage("Could not read file: " \o filePath)
  ELSE LET err == parseError(f.text)
       IN  IF err # null THEN errorPage(err.message) ELSE diagramPage

MaxChanges == 2

Pages == {"tab1", "tab2"}

FilePath == "/tmp/a&b.mmd"

DiagramFile == [exists |-> TRUE, text |-> "graph LR\n  A --> B"]

BrokenFile == [exists |-> TRUE, text |-> "<b>&lt;\n  A --> B"]

MissingFile == [exists |-> FALSE, text |-> ""]

Files == {DiagramFile, BrokenFile, MissingFile}

\* serveHtml(filePath) for each state the file can be in
served == [f \in Files |-> serveHtml(FilePath, f)]

closedPage == [state |-> "closed", shown |-> 0, response |-> null]

outsideServer == << parseVars, modelsVars, htmlVars, viewerVars >>

Watchers == {"mermaidWatcher", "bundleWatcher"}

InitServer ==
  /\ file \in Files
  /\ fileVersion = 0
  /\ debounceTimer = FALSE
  /\ sseClients = {}
  /\ page = [p \in Pages |-> closedPage]
  /\ inbox = [p \in Pages |-> FALSE]
  /\ timeouts = 0
  /\ changed = FALSE
  /\ watchers = Watchers
  /\ server = "listening"
  /\ exitCode = null
  /\ mermaidGraph = null /\ call = "startServer" /\ nodeNames = <<>> /\ nodeName = ""
  /\ found = undefined
  /\ ParseIdle
  /\ HtmlIdle
  /\ ViewerIdle

\* what the request handlers and the pages leave alone
timerAndShutdown == << debounceTimer, timeouts, changed, watchers, server, exitCode >>

\* the process runs and the server still has connections to answer on
Answering == exitCode = null /\ server # "closed"

\* the request handler for any url but /events and /viewer.js, and the page that the
\* browser shows for the answer; a page that was open has closed its EventSource
requestRoot(p) ==
  /\ Answering
  /\ page' = [page EXCEPT ![p] =
                [state |-> "loaded", shown |-> fileVersion,
                 response |-> [status |-> 200, html |-> served[file]]]]
  /\ sseClients' = sseClients \ {p}
  /\ inbox' = [inbox EXCEPT ![p] = FALSE]
  /\ UNCHANGED << file, fileVersion, timerAndShutdown >>
  /\ UNCHANGED outsideServer

\* GET / from the address bar or a manual refresh
GetRoot == \E p \in Pages : requestRoot(p)

\* GET /events from the EventSource of a page: the response joins sseClients; on a
\* later 'open' of the same EventSource the diagram page reloads itself
GetEvents(p) ==
  /\ Answering
  /\ page[p].state \in {"loaded", "dropped"}
  /\ sseClients' = sseClients \cup {p}
  /\ page' = [page EXCEPT ![p].state = "listening"]
  /\ inbox' = [inbox EXCEPT ![p] =
                 @ \/ (page[p].state = "dropped" /\ page[p].response.html.reloadOnOpen)]
  /\ UNCHANGED << file, fileVersion, timerAndShutdown >>
  /\ UNCHANGED outsideServer

\* the page is closed: req.on("close") removes its response
ClosePage ==
  \E p \in Pages :
    /\ page[p].state # "closed"
    /\ page' = [page EXCEPT ![p] = closedPage]
    /\ sseClients' = sseClients \ {p}
    /\ inbox' = [inbox EXCEPT ![p] = FALSE]
    /\ UNCHANGED << file, fileVersion, timerAndShutdown >>
    /\ UNCHANGED outsideServer

\* the connection of an EventSource breaks: req.on("close") removes its response,
\* and the EventSource will connect again
ConnectionDrop ==
  \E p \in Pages :
    /\ page[p].state = "listening"
    /\ page' = [page EXCEPT ![p].state = "dropped"]
    /\ sseClients' = sseClients \ {p}
    /\ UNCHANGED << file, fileVersion, inbox, timerAndShutdown >>
    /\ UNCHANGED outsideServer

\* clearTimeout(debounceTimer) under if (debounceTimer !== null): the timeout of the
\* handle, if the event loop still holds it, is removed
clearTimeout(timer, n) == IF timer /\ n > 0 THEN n - 1 ELSE n

\* a timeout set without clearing the one before
debouncedBroadcastNoClear(timer, n) == n + 1

\* debouncedBroadcast(): the timeouts the event loop holds after it
debouncedBroadcast(timer, n) == clearTimeout(timer, n) + 1

\* the watched file is saved: the mermaidWatcher callback, if the watcher is open,
\* calls debouncedBroadcast
FileChange ==
  \E f \in Files :
    /\ fileVersion < MaxChanges
    /\ file' = f
    /\ fileVersion' = fileVersion + 1
    /\ IF "mermaidWatcher" \in watchers
       THEN /\ timeouts' = debouncedBroadcast(debounceTimer, timeouts)
            /\ debounceTimer' = TRUE
            /\ changed' = TRUE
       ELSE UNCHANGED << timeouts, debounceTimer, changed >>
    /\ UNCHANGED << sseClients, page, inbox, watchers, server, exitCode >>
    /\ UNCHANGED outsideServer

\* the viewer bundle is rebuilt: the bundleWatcher callback calls debouncedBroadcast
BundleChange ==
  /\ "bundleWatcher" \in watchers
  /\ timeouts' = debouncedBroadcast(debounceTimer, timeouts)
  /\ debounceTimer' = TRUE
  /\ changed' = TRUE
  /\ UNCHANGED << file, fileVersion, sseClients, page, inbox, watchers, server, exitCode >>
  /\ UNCHANGED outsideServer

\* broadcast(): a reload event is written to every response in sseClients
broadcast(box, clients) == [p \in DOMAIN box |-> box[p] \/ p \in clients]

\* the timeout of debouncedBroadcast: debounceTimer = null; broadcast()
TimerFires ==
  /\ exitCode = null
  /\ timeouts > 0
  /\ timeouts' = timeouts - 1
  /\ debounceTimer' = FALSE
  /\ changed' = FALSE
  /\ inbox' = broadcast(inbox, sseClients)
  /\ UNCHANGED << file, fileVersion, sseClients, page, watchers, server, exitCode >>
  /\ UNCHANGED outsideServer

\* the 'reload' listener of a page: location.reload()
Reload(p) ==
  /\ inbox[p]
  /\ page[p].state # "closed"
  /\ requestRoot(p)

\* the timeouts left when SIGINT leaves the pending one alone
sigintTimeoutsKept(timer, n) == n

\* if (debounceTimer !== null) clearTimeout(debounceTimer), in the SIGINT handler
sigintTimeouts(timer, n) == clearTimeout(timer, n)

\* the SIGINT handler: the timeout is cleared, every client is ended and the set
\* cleared, both watchers are closed, and server.close is called
Sigint ==
  /\ exitCode = null
  /\ timeouts' = sigintTimeouts(debounceTimer, timeouts)
  /\ page' = [p \in Pages |->
                IF p \in sseClients THEN [page[p] EXCEPT !.state = "dropped"] ELSE page[p]]
  /\ sseClients' = {}
  /\ watchers' = {}
  /\ server' = IF server = "listening" THEN "closing" ELSE server
  /\ UNCHANGED << file, fileVersion, debounceTimer, changed, inbox, exitCode >>
  /\ UNCHANGED outsideServer

\* the 'close' event of the server: it accepts nothing and no connection is left
ServerCloses ==
  /\ exitCode = null
  /\ server = "closing"
  /\ sseClients = {}
  /\ server' = "closed"
  /\ UNCHANGED << file, fileVersion, debounceTimer, sseClients, page, inbox, timeouts,
                  changed, watchers, exitCode >>
  /\ UNCHANGED outsideServer

\* the callback of server.close: process.exit(0)
Exit ==
  /\ exitCode = null
  /\ server = "closed"
  /\ exitCode' = [code |-> 0]
  /\ UNCHANGED << file, fileVersion, debounceTimer, sseClients, page, inbox, timeouts,
                  changed, watchers, server >>
  /\ UNCHANGED outsideServer

NextServer ==
  \/ GetRoot
  \/ \E p \in Pages : GetEvents(p)
  \/ ClosePage
  \/ ConnectionDrop
  \/ FileChange
  \/ BundleChange
  \/ TimerFires
  \/ \E p \in Pages : Reload(p)
  \/ Sigint
  \/ ServerCloses
  \/ Exit

SpecServer == InitServer /\ [][NextServer]_vars

\* timers fire, a written event arrives, a loaded page runs its script, and the
\* callback of server.close runs once the server has closed
SpecServerFair ==
  /\ SpecServer
  /\ WF_vars(TimerFires)
  /\ \A p \in Pages : WF_vars(Reload(p)) /\ WF_vars(GetEvents(p))
  /\ WF_vars(Exit)

\* ==========================================================================
\* Claims about the dev server
\* ==========================================================================

\* the server is up, the file will not change again, and the page p is open on
\* content older than it
Stale(p) ==
  /\ server = "listening"
  /\ fileVersion = MaxChanges
  /\ page[p].state # "closed"
  /\ page[p].shown < fileVersion

\* C18: after the last change to the watched file every page that the server has
\* served and that is still open eventually receives a reload or was served after
\* the change, so no open page keeps showing content older than the file.
C18_OpenPagesCatchUp == \A p \in Pages : Stale(p) ~> ~Stale(p)

\* what GET / must answer for each state of the file: the error message with &, <
\* and > written as entities, or the diagram
AnswerCatalogue ==
  { [file |-> DiagramFile, kind |-> "diagram", pre |-> ""],
    [file |-> MissingFile, kind |-> "error",
     pre |-> "Could not read file: /tmp/a&amp;b.mmd"],
    [file |-> BrokenFile, kind |-> "error",
     pre |-> "Unsupported diagram type. Only graph/flowchart diagrams are supported. "
               \o "Got: '&lt;b&gt;&amp;lt;'"] }

AnswerFor(f) == CHOOSE a \in AnswerCatalogue : a.file = f

\* C19: GET / always answers 200; for a file that cannot be read or parsed the page is
\* the error page with the escaped message and the EventSource script; the file is
\* read again at every GET /, so a page served since the last change shows the file
\* as it is now, the working diagram once the file is fixed.
C19_AnswersFollowTheFile ==
  \A p \in Pages :
    page[p].state # "closed" =>
      /\ page[p].response.status = 200
      /\ page[p].response.html.eventSource
      /\ page[p].shown = fileVersion =>
           /\ page[p].response.html.kind = AnswerFor(file).kind
           /\ page[p].response.html.pre = AnswerFor(file).pre

\* one page still shows the error of the file before the last change, another was
\* served the diagram of the fixed file, and a page of the unreadable file was seen
C19_Witness ==
  /\ file = DiagramFile
  /\ page["tab1"].state # "closed"
  /\ page["tab1"].shown < fileVersion
  /\ page["tab1"].response.html.kind = "error"
  /\ page["tab1"].response.html.pre = AnswerFor(BrokenFile).pre
  /\ page["tab2"].state # "closed"
  /\ page["tab2"].shown = fileVersion
  /\ page["tab2"].response.html.kind = "diagram"

\* ==========================================================================
\* Claim about partial chains
\* ==========================================================================

\* for each line with a chain that stops early: the edges up to the stop, and the
\* node labels met up to the stop
PartialCatalogue ==
  { [line |-> "A --> B -->",
     edges |-> << [source |-> "A", target |-> "B"] >>, labels |-> <<>>],
    [line |-> "A --> B ?? C",
     edges |-> << [source |-> "A", target |-> "B"] >>, labels |-> <<>>],
    [line |-> "A --> B[b] -.-> C ?? D[d] --> E",
     edges |-> << [source |-> "A", target |-> "B"], [source |-> "B", target |-> "C"] >>,
     labels |-> << <<"B", "b">> >>],
    [line |-> "A -->|go| B --> [x]",
     edges |-> << [source |-> "A", target |-> "B", label |-> "go"] >>, labels |-> <<>>],
    [line |-> "A --> B C --> D",
     edges |-> << [source |-> "A", target |-> "B"] >>, labels |-> <<>>],
    [line |-> "A ?? B --> C", edges |-> <<>>, labels |-> <<>>] }

\* C20: when chain parsing stops at the first position with no matching arrow or no
\* parsable target node, every edge recognised before that position is emitted and
\* recorded, and nothing after that position contributes an edge or a label.
C20_PartialChainsKeepTheirEdges ==
  \A c \in PartialCatalogue :
    (pc = "returned" /\ text = "graph LR\n" \o c.line) =>
      /\ edges = c.edges
      /\ DOMAIN labels = {c.labels[i][1] : i \in 1..Len(c.labels)}
      /\ \A i \in 1..Len(c.labels) : labels[c.labels[i][1]] = c.labels[i][2]

\* the chain with an unknown token after two edges has returned its two edges
C20_Witness ==
  /\ pc = "returned"
  /\ text = "graph LR\nA --> B[b] -.-> C ?? D[d] --> E"
  /\ Len(edges) = 2

\* ==========================================================================
\* Claims about arrows, standalone lines and subgraph scoping
\* ==========================================================================

ArrowLexemes == {"-.->", "-..->", "==>", "-->", "---", "--", "-..-", "-.-"}

\* the texts whose one body line has an arrow, with or without a |label|, directly
\* followed by the identifier B
GluedTexts ==
  {"graph TD\nA" \o pre \o a \o bars \o "B" :
     pre \in {"", " "}, a \in ArrowLexemes,
     bars \in {"", "|Yes|", " |  a b\t|", "||", "| |"}}

\* C21: a line in which an arrow lexeme, with its optional |label|, is directly followed
\* by the target identifier yields no edge, for every arrow lexeme, and no shorter
\* lexeme is accepted in its place.
C21_GluedArrowYieldsNoEdge ==
  (pc = "returned" /\ text \in GluedTexts) => edges = <<>>

\* the line A -->|Yes|B was parsed and gave no edge
C21_Witness ==
  /\ pc = "returned"
  /\ text = "graph TD\nA -->|Yes|B"
  /\ edges = <<>>

\* the lines that are one node token with an identifier that is not reserved: the
\* identifier and, if the token has a shape, its label
DeclarationCatalogue ==
  { [line |-> "A", id |-> "A", label |-> <<>>],
    [line |-> "A[Client]", id |-> "A", label |-> <<"Client">>],
    [line |-> "  N((r))  ", id |-> "N", label |-> <<"r">>],
    [line |-> "9", id |-> "9", label |-> <<>>],
    [line |-> "a_b", id |-> "a_b", label |-> <<>>],
    [line |-> "Class", id |-> "Class", label |-> <<>>] }

\* the other lines without an edge: reserved words, with or without a shape, and lines
\* that a single token does not consume
NoDeclarationLines ==
  {"style", "classDef", "class", "click", "linkStyle", "graph", "flowchart", "subgraph",
   "direction", "end[X]", "style[s]", "A[x] junk", "A B", "A[z", "A --", "-->", "[x]"}

\* C22: a body line that yields no edge registers a subgraph member if and only if the
\* parser is inside a subgraph, one node token consumes the whole trimmed line and the
\* identifier is not reserved; then the identifier becomes a member of the current
\* subgraph and its label is captured; at top level no member is registered.
C22_StandaloneDeclaration ==
  pc = "returned" =>
    /\ \A d \in DeclarationCatalogue :
         /\ text = "graph LR\nsubgraph s\n" \o d.line =>
              /\ subgraphs = << [name |-> "s", nodes |-> <<d.id>>] >>
              /\ d.label # <<>> => (d.id \in DOMAIN labels /\ labels[d.id] = d.label[1])
         /\ text = "graph LR\n" \o d.line => subgraphs = <<>>
    /\ \A l \in NoDeclarationLines :
         /\ text = "graph LR\nsubgraph s\n" \o l =>
              subgraphs = << [name |-> "s", nodes |-> <<>>] >>
         /\ text = "graph LR\n" \o l => subgraphs = <<>>

\* A[Client] alone on a line inside subgraph s became a member with its label
C22_Witness ==
  /\ pc = "returned"
  /\ text = "graph LR\nsubgraph s\nA[Client]"
  /\ subgraphs = << [name |-> "s", nodes |-> <<"A">>] >>
  /\ labels["A"] = "Client"

\* the subgraph lines of the texts, with the name each declares
SubgraphLineCatalogue ==
  { [line |-> "  subgraph g", name |-> "g"], [line |-> "subgraph s", name |-> "s"],
    [line |-> "subgraph o", name |-> "o"], [line |-> "subgraph i", name |-> "i"] }

EndLines == {"  end", "end"}

\* the step that handles body line number next
HandlesLine == pc = "loop" /\ next <= Len(lines) /\ next' = next + 1

\* C23: subgraph scoping is flat: the current subgraph is none or the last element of
\* subgraphs; each subgraph line appends one subgraph and makes it current; an end line
\* sets the current subgraph to none however many subgraph lines came before it, and at
\* top level changes nothing.
C23_FlatSubgraphScoping ==
  /\ [](currentSubgraph \in {0, Len(subgraphs)})
  /\ [][HandlesLine =>
         /\ \A c \in SubgraphLineCatalogue :
              lines[next] = c.line =>
                /\ subgraphs' = Append(subgraphs, [name |-> c.name, nodes |-> <<>>])
                /\ currentSubgraph' = Len(subgraphs) + 1
         /\ lines[next] \in EndLines =>
              /\ currentSubgraph' = 0
              /\ UNCHANGED << subgraphs, edges, labels, direction >>]_vars

\* after subgraph o, subgraph i and one end, the line A is at top level
C23_Witness ==
  /\ pc = "returned"
  /\ text = "graph LR\nsubgraph o\nsubgraph i\nend\nA"
  /\ currentSubgraph = 0
  /\ subgraphs = << [name |-> "o", nodes |-> <<>>], [name |-> "i", nodes |-> <<>>] >>

\* the lines that are neither comment, direction hint, subgraph line nor end line and
\* yield no edge
OtherLines == StandaloneLines \ {"end"}

\* C24: a body line that is no comment, direction hint, subgraph line or end line,
\* yields no edge and declares no subgraph member is ignored: direction, subgraphs,
\* edges, the label map and the current subgraph are what they were before the line.
C24_OtherLinesChangeNothing ==
  [][(/\ HandlesLine
      /\ \/ currentSubgraph = 0 /\ lines[next] \in OtherLines
         \/ currentSubgraph # 0 /\ lines[next] \in NoDeclarationLines)
       => UNCHANGED << direction, subgraphs, edges, labels, currentSubgraph >>]_vars

\* C25: at most one selection indicator is active: while a sidebar node item is
\* active no cycle item is active, and while a cycle item is active no sidebar node
\* item is active and no element carries 'selected-node'.
C25_OneSelectionIndicator ==
  /\ Cardinality(sidebarActive) + Cardinality(cycleActive) <= 1
  /\ cycleActive # {} =>
       /\ sidebarActive = {}
       /\ \A m \in DOMAIN nodeClasses : "selected-node" \notin nodeClasses[m]

\* C26: generateHtml emits one edge element for every entry of the edge list, in
\* order, and the ids of the elements are pairwise distinct, also for parallel edges
\* and for node names that hold the separator of the id.
C26_EdgeElementIdsDistinct ==
  call = "generateHtml" =>
    /\ Len(edgeElements) = Len(mermaidGraph.edges)
    /\ \A i \in 1..Len(edgeElements) :
         /\ edgeElements[i].data.source = mermaidGraph.edges[i].source
         /\ edgeElements[i].data.target = mermaidGraph.edges[i].target
    /\ \A i, j \in 1..Len(edgeElements) :
         edgeElements[i].data.id = edgeElements[j].data.id => i = j

\* (u, v) is a consecutive pair of the cycle, the pair from the last node back to the
\* first included
ConsecutiveIn(cycle, u, v) ==
  \E k \in 1..Len(cycle) : cycle[k] = u /\ cycle[(k % Len(cycle)) + 1] = v

\* the edge satisfies the criterion of findCyclicEdgeIds
TarjanCyclic(es, e) == inCycleOrSelfLoop(e, tarjan(es))

\* C27: the two cycle analyses agree: an edge (u, v) satisfies the criterion of
\* findCyclicEdgeIds (u = v, or u and v in one component of more than one node) if and
\* only if (u, v) is a consecutive pair, last-to-first included, of a cycle returned
\* by findSimpleCycles; the cycle list is empty exactly when no edge satisfies the
\* criterion.
C27_CycleAnalysesAgree ==
  call = "findSimpleCycles" =>
    LET es == mermaidGraph.edges
    IN  /\ \A i \in 1..Len(es) :
             TarjanCyclic(es, es[i])
               <=> \E k \in 1..Len(cycles) :
                     ConsecutiveIn(cycles[k], es[i].source, es[i].target)
        /\ cycles = <<>> <=> \A i \in 1..Len(es) : ~TarjanCyclic(es, es[i])

\* a self-loop on a beside the edge a -> b, which is on no cycle
C27_Witness ==
  /\ call = "findSimpleCycles"
  /\ mermaidGraph.edges = << [source |-> "a", target |-> "a"],
                             [source |-> "a", target |-> "b"] >>
  /\ cycles = << <<"a">> >>
  /\ TarjanCyclic(mermaidGraph.edges, mermaidGraph.edges[1])
  /\ ~TarjanCyclic(mermaidGraph.edges, mermaidGraph.edges[2])

\* the step writes a reload event to the page p, which does nothing else in it
WritesReload(p) == ~inbox[p] /\ inbox'[p] /\ page'[p] = page[p]

\* a timeout of debouncedBroadcast expires in the step
TimerExpires == timeouts' < timeouts /\ ~debounceTimer'

\* what a step of the server does to the timeout and to the pages
DebounceStep ==
  /\ (fileVersion' # fileVersion /\ "mermaidWatcher" \in watchers)
       => (timeouts' = 1 /\ changed')
  /\ (~changed /\ changed') => timeouts' = 1
  /\ TimerExpires => (changed /\ ~changed' /\ timeouts' = 0)
  /\ \A p \in Pages :
       WritesReload(p) =>
         (TimerExpires /\ p \in sseClients /\ page[p].state = "listening")

\* C28: at most one debounce timeout is pending; a change event for the watched file
\* or the bundle leaves exactly one pending, however many came before it, so that a
\* burst of change events is followed by one broadcast; a broadcast happens only
\* after a change event since the broadcast before it; and a broadcast writes a
\* reload event only to pages whose /events response is open.
C28_DebounceOneBroadcastPerBurst ==
  /\ [](timeouts <= 1)
  /\ [](server = "listening" => (changed <=> timeouts = 1))
  /\ [](sseClients = {p \in Pages : page[p].state = "listening"})
  /\ [][DebounceStep]_vars

\* two changes of the file after tab1 was served, and a reload on its way to tab1
\* with no timeout left
C28_Witness ==
  /\ fileVersion = 2
  /\ page["tab1"].state = "listening"
  /\ page["tab1"].shown = 0
  /\ inbox["tab1"]
  /\ ~inbox["tab2"]
  /\ ~changed
  /\ timeouts = 0
  /\ server = "listening"

\* what a step does when SIGINT is handled and after it
ShutdownStep ==
  /\ (server = "listening" /\ server' = "closing") =>
       /\ sseClients' = {}
       /\ \A p \in sseClients : page'[p].state = "dropped"
       /\ timeouts' = 0
       /\ watchers' = {}
  /\ server # "listening" => \A p \in Pages : ~WritesReload(p)
  /\ exitCode' # exitCode => (server = "closed" /\ exitCode' = [code |-> 0])

\* C29: when SIGINT is handled the pending debounce timeout is cancelled, every SSE
\* client is ended and removed and both watchers are closed; afterwards no timeout is
\* pending, no watcher is open and no reload event is written to any page; and once
\* the server has closed, the process exits with code 0.
C29_ShutdownReleasesEverything ==
  /\ [](server # "listening" => (timeouts = 0 /\ watchers = {}))
  /\ [][ShutdownStep]_vars
  /\ (server = "closed") ~> (exitCode = [code |-> 0])

\* the process has exited with code 0 after a SIGINT that came while a timeout was
\* pending and tab1 was listening
C29_Witness ==
  /\ exitCode = [code |-> 0]
  /\ debounceTimer
  /\ changed
  /\ timeouts = 0
  /\ page["tab1"].state = "dropped"
  /\ sseClients = {}

\* the position of the first-declared subgraph that has the node as a member, or 0
FirstContaining(sgs, id) ==
  LET has == {i \in 1..Len(sgs) : \E j \in 1..Len(sgs[i].nodes) : sgs[i].nodes[j] = id}
  IN  IF has = {} THEN 0 ELSE CHOOSE i \in has : \A k \in has : i <= k

BorderColours == <<"#f97316", "#60a5fa", "#4ade80", "#c084fc", "#f472b6", "#fbbf24">>

\* C30: the data of generateHtml has one legend entry per subgraph, in declaration
\* order, coloured by position modulo six; one node element per name of
\* allNodeNames; and each node's dotColor and borderColor are the legend colour of
\* the first-declared subgraph that has it as a member, or the unassigned colour if
\* none has; also when subgraphs share a name or a name is empty.
C30_NodeColourIsLegendColour ==
  call = "generateHtml" =>
    LET sgs == mermaidGraph.subgraphs
    IN  /\ Len(legend) = Len(sgs)
        /\ \A i \in 1..Len(sgs) :
             /\ legend[i].name = sgs[i].name
             /\ legend[i].color = BorderColours[((i - 1) % 6) + 1]
        /\ [k \in 1..Len(nodeElements) |-> nodeElements[k].data.id]
             = allNodeNames(mermaidGraph)
        /\ \A k \in 1..Len(nodeElements) :
             LET d == nodeElements[k].data
                 i == FirstContaining(sgs, d.id)
                 c == IF i = 0 THEN "#6b7280" ELSE legend[i].color
             IN  d.dotColor = c /\ d.borderColor = c

====
